---- MODULE Spec2Model ----
(***************************************************************************)
(* A model of layer_toolkit's analysis and generation core.                *)
(*                                                                         *)
(*   Spec        analyze_elfcar_with_hotspots and _extract_hotspots        *)
(*               (src/layer_toolkit/analysis/elf.py)                       *)
(*   SpecLayers  _count_layers (src/layer_toolkit/analysis/bonds.py)       *)
(*   SpecBonds   _collect_bonds, _resolve_bond_key, _build_supercell and   *)
(*               _dict_to_summaries (src/layer_toolkit/analysis/bonds.py)  *)
(*   SpecGeometry   _index_to_frac and _fractional_distance (elf.py)       *)
(*   SpecDirectory  analyze_directory (elf.py)                             *)
(*   SpecGenerate   LayerGenerator.run                                     *)
(*               (src/layer_toolkit/generation/layers.py)                  *)
(*   SpecPrepare    LayerGenerator.run with _prepare_layer step by step    *)
(*   SpecStructure  build_layer_structure and _select_preferred_doc        *)
(*   SpecCli        _handle_analyze_elf (src/layer_toolkit/cli.py)         *)
(*                                                                         *)
(* Numbers.  The code works on floats; the model works on exact rationals  *)
(* held as integers over a stated denominator:                             *)
(*   - a grid value is an integer number of 10^-6 units;                   *)
(*   - a value rounded to 5 decimals is an integer number of 10^-5 units;  *)
(*   - a fractional coordinate of a grid with dimensions dims is an        *)
(*     integer numerator over FracDen(dims);                               *)
(*   - min_separation_frac is an integer numerator over SepDen;            *)
(*   - a Cartesian coordinate is an integer numerator over FracDen(dims);  *)
(*   - a distance to an atom is carried as its exact square, a numerator   *)
(*     over FracDen(dims)^2 (no square root is taken, and the final        *)
(*     round(.., 5) of that one field is not modelled).                    *)
(* The order in which numpy's argpartition and argsort place equal values  *)
(* is not specified: the model lets every order happen.                    *)
(***************************************************************************)
EXTENDS Integers, Sequences, FiniteSets, TLC

(***************************************************************************)
(* Bounds of the model.                                                    *)
(***************************************************************************)
\* Small grids: every shape with at most MaxCells cells is enumerated (at most
\* MaxBareCells cells in the cell without atoms).
MaxCells == 4
MaxBareCells == 2
\* The cells of a small grid hold the values 0, ValStep, .., MaxLevel*ValStep.
MaxLevel == 2
\* One value level, in 10^-6 units.
ValStep == 7
\* top_n ranges over 0..MaxTopN.
MaxTopN == 3
\* min_separation_frac is a multiple of 1/SepDen.
SepDen == 20
\* The long grids (one axis of BigN cells) on which the pool is widened.
BigN == 515
\* _count_layers: a structure has at most MaxSites sites, and a coordinate is
\* one of 0..MaxCoord half-angstroms.
MaxSites == 3
MaxCoord == 4

(***************************************************************************)
(* Program constants.                                                      *)
(***************************************************************************)
\* elf.py:198  max(top_n * 256, top_n)
PoolFactor == 256
\* elf.py:220  float("nan"), and np.mean of an empty array
NaN == -1
\* bonds.py:68  gap_threshold: float = 1.5, in half-angstroms
DefaultGapThreshold == 3

VARIABLES
    \* ---- analyze_elfcar_with_hotspots / _extract_hotspots
    file,                   \* what the ELFCAR file at `path` holds
    top_n,                  \* argument
    min_separation_frac,    \* argument, numerator over SepDen
    pc,                     \* position in the code
    loaded,                 \* _load_elf_context has been invoked
    extract_called,         \* _extract_hotspots has been invoked
    elf_data,               \* local: flat index -> value
    grid_dimensions,        \* local
    lattice_vectors,        \* local
    atomic_positions_cart,  \* local
    average_elf,            \* local
    candidate_count,        \* _extract_hotspots local
    processed,              \* _extract_hotspots local
    accepted_frac,          \* _extract_hotspots local (unrounded coordinates)
    hotspots,               \* _extract_hotspots local
    pool,                   \* candidate_indices of the current pass
    scanned,                \* members of ordered_indices the for loop passed
    passes,                 \* number of passes of the while loop started
    evaluations,            \* history: candidates tested by _is_far_enough_frac
    raised,                 \* "" or the exception raised
    returned,               \* <<>> or <<the ElfAnalysisResult returned>>
    \* ---- _count_layers
    sites,                  \* structure: sequence of Cartesian coordinates
    vacuum_direction,       \* argument (0, 1 or 2)
    gap_threshold,          \* argument
    coords,                 \* local
    num_layers,             \* <<>> or <<the value returned>>
    lpc,                    \* position in the code
    \* ---- _collect_bonds, _build_supercell, _dict_to_summaries
    bond_structure,         \* argument structure: [lattice, sites]
    max_distance,           \* argument
    bond_vacuum_direction,  \* argument vacuum_direction (0, 1 or 2)
    site_index,             \* position of the outer loop (1-based)
    visited,                \* neighbours of the current site already iterated
    in_plane,               \* dict, as a sequence in insertion order
    interlayer,             \* dict, as a sequence in insertion order
    processed_bonds,        \* the set `processed` of bond ids
    counted,                \* history: one record per bucket increment
    scaling_matrix,         \* _build_supercell local
    supercell_lattice,      \* lattice of the supercell, as rows
    summaries,              \* <<>> or <<in-plane summaries, interlayer summaries>>
    bpc,                    \* position in the code
    \* ---- _index_to_frac and _fractional_distance, called directly
    geo_call,               \* which of the two is called
    geo_dims,               \* grid_dimensions argument
    geo_index,              \* index argument
    geo_a,                  \* a, numerators over DistDen
    geo_b,                  \* b, numerators over DistDen
    geo_frac,               \* <<>> or <<_index_to_frac(index, dims)>>
    geo_dist,               \* <<>> or <<_fractional_distance(a, b) squared>>
    geo_dist_rev,           \* <<>> or <<_fractional_distance(b, a) squared>>
    \* ---- analyze_directory
    candidates,             \* directory.glob: file names after the prefix
    labelled,               \* local
    queue,                  \* sorted(labelled), the part not yet iterated
    analysed,               \* history: the files handed to the analysis
    results,                \* local
    dir_raised,             \* "" or the exception that left the loop
    dpc,                    \* position in the code
    \* ---- LayerGenerator.run
    structure_type,         \* request.structure_type
    layer_counts,           \* request.layer_counts
    pending,                \* sorted(request.layer_counts), not yet iterated
    seen,                   \* local
    created_paths,          \* local
    prepared,               \* history: layer counts passed to _prepare_layer
    gen_raised,             \* "" or the exception raised
    gen_returned,           \* <<>> or <<the list returned>>
    gpc,                    \* position in the code
    \* ---- LayerGenerator._prepare_layer
    submit_jobs,            \* request.submit_jobs
    written,                \* history: the files written, in order
    submitted,              \* history: the job scripts handed to submit_job
    ppc,                    \* position in _prepare_layer: a step of PrepareSteps, or 0
    \* ---- build_layer_structure, and _select_preferred_doc called directly
    bls_call,               \* which of the two is called
    api_key,                \* argument: <<>> for None, or <<the key>>
    max_energy_above_hull,  \* argument: <<>> for None, or <<hundredths of eV>>
    bls_structure_type,     \* argument structure_type
    bls_layer_count,        \* argument layer_count
    available,              \* what the Materials Project holds for the query
    queries,                \* history: number of summary searches issued
    docs,                   \* local: <<>> or <<the documents returned>>
    selected_doc,           \* local: <<>> or <<the document selected>>
    built,                  \* <<>> or <<the Structure returned>>
    bls_raised,             \* "" or the exception raised
    spc,                    \* position in the code
    \* ---- _handle_analyze_elf
    cli_file,               \* args.file: <<>> for None, or <<the file>>
    cli_directory,          \* the files of args.directory matching the prefix
    cli_top_n,              \* args.top_n
    cli_analysed,           \* history: the files handed to the analysis
    cli_outputs,            \* history: the output files written
    cli_exit,               \* <<>> or <<the exit code returned>>
    cli_raised,             \* "" or the exception that left the handler
    cpc                     \* position in the code

elfVars == <<file, top_n, min_separation_frac, pc, loaded, extract_called,
             elf_data, grid_dimensions, lattice_vectors, atomic_positions_cart,
             average_elf, candidate_count, processed, accepted_frac, hotspots,
             pool, scanned, passes, evaluations, raised, returned>>
layerVars == <<sites, vacuum_direction, gap_threshold, coords, num_layers, lpc>>
bondVars == <<bond_structure, max_distance, bond_vacuum_direction, site_index,
              visited, in_plane, interlayer, processed_bonds, counted,
              scaling_matrix, supercell_lattice, summaries, bpc>>
geoVars == <<geo_call, geo_dims, geo_index, geo_a, geo_b, geo_frac, geo_dist, geo_dist_rev>>
dirVars == <<candidates, labelled, queue, analysed, results, dir_raised, dpc>>
genVars == <<structure_type, layer_counts, pending, seen, created_paths,
             prepared, gen_raised, gen_returned, gpc>>
prepVars == <<submit_jobs, written, submitted, ppc>>
structVars == <<bls_call, api_key, max_energy_above_hull, bls_structure_type, bls_layer_count,
                available, queries, docs, selected_doc, built, bls_raised, spc>>
cliVars == <<cli_file, cli_directory, cli_top_n, cli_analysed, cli_outputs,
             cli_exit, cli_raised, cpc>>
vars == <<elfVars, layerVars, bondVars, geoVars, dirVars, genVars, prepVars,
          structVars, cliVars>>

\* What each operation leaves alone: the variables of the other operations.
restElf == <<layerVars, bondVars, geoVars, dirVars, genVars,
    prepVars, structVars, cliVars>>
restLayers == <<elfVars, bondVars, geoVars, dirVars, genVars,
    prepVars, structVars, cliVars>>
restBonds == <<elfVars, layerVars, geoVars, dirVars, genVars,
    prepVars, structVars, cliVars>>
restGeometry == <<elfVars, layerVars, bondVars, dirVars, genVars,
    prepVars, structVars, cliVars>>
restDirectory == <<elfVars, layerVars, bondVars, geoVars, genVars,
    prepVars, structVars, cliVars>>
restGenerate == <<elfVars, layerVars, bondVars, geoVars, dirVars,
    prepVars, structVars, cliVars>>
restPrepare == <<elfVars, layerVars, bondVars, geoVars, dirVars, structVars, cliVars>>
restStructure == <<elfVars, layerVars, bondVars, geoVars, dirVars, genVars,
                   prepVars, cliVars>>
restCli == <<elfVars, layerVars, bondVars, geoVars, dirVars, genVars, prepVars,
             structVars>>

(***************************************************************************)
(* Arithmetic helpers.                                                     *)
(***************************************************************************)
Abs(x) == IF x < 0 THEN -x ELSE x
Min(x, y) == IF x <= y THEN x ELSE y
Max(x, y) == IF x >= y THEN x ELSE y

\* round(n/d) to the nearest integer, halves to the even neighbour (Python's
\* round); d > 0.
RoundHalfEven(n, d) ==
    LET q == n \div d
        r == n % d
    IN  IF 2 * r < d THEN q
        ELSE IF 2 * r > d THEN q + 1
        ELSE IF q % 2 = 0 THEN q ELSE q + 1

RECURSIVE SumRange(_, _, _)
\* The sum of f[lo], .., f[hi], by halves.
SumRange(f, lo, hi) ==
    IF lo > hi THEN 0
    ELSE IF lo = hi THEN f[lo]
    ELSE LET mid == (lo + hi) \div 2
         IN  SumRange(f, lo, mid) + SumRange(f, mid + 1, hi)

(***************************************************************************)
(* Grid geometry.                                                          *)
(***************************************************************************)
Size(dims) == dims[1] * dims[2] * dims[3]
Indices(dims) == 0 .. (Size(dims) - 1)

\* np.unravel_index in C order.
unravel_index(flat_index, dims) ==
    << flat_index \div (dims[2] * dims[3]),
       (flat_index \div dims[3]) % dims[2],
       flat_index % dims[3] >>

\* Faulty variant: the divisor is the size of the axis.
DenominatorIsDim(dim) == dim

\* elf.py:168  (dim - 1) if dim > 1 else 1
Denominator(dim) == IF dim > 1 THEN dim - 1 ELSE 1
FracDen(dims) == Denominator(dims[1]) * Denominator(dims[2]) * Denominator(dims[3])

\* value / denominator per axis, as numerators over FracDen(dims).
index_to_frac(index, dims) ==
    [a \in 1..3 |-> index[a] * (FracDen(dims) \div Denominator(dims[a]))]

\* np.dot(frac_coords, lattice_vectors), numerators over the same denominator.
frac_to_cart(frac_coords, lattice) ==
    [j \in 1..3 |-> frac_coords[1] * lattice[1][j]
                    + frac_coords[2] * lattice[2][j]
                    + frac_coords[3] * lattice[3][j]]

\* Faulty variant: the distance does not wrap at the cell boundary.
fractional_distance_sq_unwrapped(a, b, den) ==
    (a[1] - b[1]) * (a[1] - b[1]) + (a[2] - b[2]) * (a[2] - b[2])
    + (a[3] - b[3]) * (a[3] - b[3])

\* The square of _fractional_distance(a, b): numerator over den^2.
fractional_distance_sq(a, b, den) ==
    LET delta(k) == Abs(a[k] - b[k])
        wrapped(k) == Min(delta(k), den - delta(k))
    IN  wrapped(1) * wrapped(1) + wrapped(2) * wrapped(2) + wrapped(3) * wrapped(3)

\* Faulty variant: a candidate exactly min_sep away counts as too close.
CloserOrEqual(a, b, den, min_sep) ==
    fractional_distance_sq(a, b, den) * SepDen * SepDen <= min_sep * min_sep * den * den

\* _fractional_distance(a, b) < min_sep, for min_sep >= 0 (numerator over SepDen).
CloserThan(a, b, den, min_sep) ==
    fractional_distance_sq(a, b, den) * SepDen * SepDen < min_sep * min_sep * den * den

\* Faulty variant: the candidate is compared with the last accepted hotspot only.
is_far_enough_last_only(candidate, accepted, min_sep, den) ==
    \A k \in {Len(accepted)} \ {0} : ~CloserThan(candidate, accepted[k], den, min_sep)

\* Faulty variant: the candidate is kept when some accepted hotspot is far
\* enough, so that the first candidate of a call is never kept.
is_far_enough_some(candidate, accepted, min_sep, den) ==
    \E k \in 1..Len(accepted) : ~CloserThan(candidate, accepted[k], den, min_sep)

is_far_enough_frac(candidate, accepted, min_sep, den) ==
    \A k \in 1..Len(accepted) : ~CloserThan(candidate, accepted[k], den, min_sep)

\* round(x, 5) of a grid value held in 10^-6 units.
Round5Value(v) == RoundHalfEven(v, 10)
\* round(x, 5) of the rational n/d.
Round5(n, d) == RoundHalfEven(n * 100000, d)

\* Faulty variant: the mean is cut to 5 decimals instead of rounded.
MeanTruncated(data, dims) ==
    IF Size(dims) = 0 THEN NaN
    ELSE SumRange(data, 0, Size(dims) - 1) \div (10 * Size(dims))

\* round(float(np.mean(elf_data)), 5); the mean of nothing is nan.
MeanRounded(data, dims) ==
    IF Size(dims) = 0 THEN NaN
    ELSE RoundHalfEven(SumRange(data, 0, Size(dims) - 1), 10 * Size(dims))

\* min over the atoms of |atom - cart|^2, numerator over den^2; nan without atoms.
ShortestDistanceSq(cart, atoms, den) ==
    IF Len(atoms) = 0 THEN NaN
    ELSE LET d2(k) == (atoms[k][1] * den - cart[1]) * (atoms[k][1] * den - cart[1])
                    + (atoms[k][2] * den - cart[2]) * (atoms[k][2] * den - cart[2])
                    + (atoms[k][3] * den - cart[3]) * (atoms[k][3] * den - cart[3])
             best == CHOOSE k \in 1..Len(atoms) : \A l \in 1..Len(atoms) : d2(k) <= d2(l)
         IN  d2(best)

\* The ElfHotspot appended at lines 226-234.
ElfHotspot(rank, flat_index, frac_coord, data, dims, lattice, atoms) ==
    LET cart_coord == frac_to_cart(frac_coord, lattice)
    IN  [ rank |-> rank,
          elf_value |-> Round5Value(data[flat_index]),
          frac_coord |-> [a \in 1..3 |-> Round5(frac_coord[a], FracDen(dims))],
          cart_coord |-> [a \in 1..3 |-> Round5(cart_coord[a], FracDen(dims))],
          shortest_distance |-> ShortestDistanceSq(cart_coord, atoms, FracDen(dims)) ]

(***************************************************************************)
(* Candidate pools.                                                        *)
(***************************************************************************)
\* The value v with fewer than k cells above it and at least k cells at or
\* above it: the smallest value of any top-k selection.
PoolThreshold(data, dims, k) ==
    CHOOSE v \in {data[i] : i \in Indices(dims)} :
        /\ Cardinality({i \in Indices(dims) : data[i] > v}) < k
        /\ Cardinality({i \in Indices(dims) : data[i] >= v}) >= k

\* np.argpartition(flat, -k)[-k:]: every set of k indices no member of which
\* holds a smaller value than a non-member.
TopSets(data, dims, k) ==
    LET v == PoolThreshold(data, dims, k)
        above == {i \in Indices(dims) : data[i] > v}
        ties == {i \in Indices(dims) : data[i] = v}
        need == k - Cardinality(above)
    IN  IF need = Cardinality(ties) THEN {above \cup ties}
        ELSE {above \cup t : t \in {s \in SUBSET ties : Cardinality(s) = need}}

\* Faulty variant: the pool is walked in ascending order (the [::-1] is missing).
Lowest(data, rem) ==
    LET vals == {data[i] : i \in rem}
        bottom == CHOOSE v \in vals : \A w \in vals : v <= w
    IN  {i \in rem : data[i] = bottom}

\* The members of rem that may come next in a descending order of rem.
Highest(data, rem) ==
    LET neg == {0 - data[i] : i \in rem}
        top == 0 - (CHOOSE v \in neg : \A w \in neg : v <= w)
    IN  {i \in rem : data[i] = top}

(***************************************************************************)
(* The inputs: the files and the arguments.                                *)
(***************************************************************************)
\* The cell of the tests, np.eye(3), with two atoms.
CubicCell ==
    [ lattice |-> << <<1, 0, 0>>, <<0, 1, 0>>, <<0, 0, 1>> >>,
      atoms |-> << <<1, 1, 1>>, <<0, 0, 0>> >> ]
\* A sheared cell without atoms.
BareCell ==
    [ lattice |-> << <<3, 0, 0>>, <<1, 3, 0>>, <<0, 0, 2>> >>,
      atoms |-> << >> ]

\* Every shape of at most n cells, and the empty grid.
SmallShapes(n) ==
    {d \in [1..3 -> 1..n] : Size(d) <= n} \cup {<<0, 0, 0>>}

\* Every grid of the shapes with the values 0, ValStep, .., MaxLevel * ValStep.
FilesIn(shapes, cell) ==
    UNION { { [ dims |-> d, data |-> [i \in Indices(d) |-> lv[i] * ValStep],
                lattice |-> cell.lattice, atoms |-> cell.atoms ]
              : lv \in [Indices(d) -> 0..MaxLevel] }
            : d \in shapes }

\* The small files: every grid of at most MaxCells cells in the cubic cell,
\* and every grid of at most MaxBareCells cells in the bare cell.
SmallFiles ==
    FilesIn(SmallShapes(MaxCells), CubicCell)
        \cup FilesIn(SmallShapes(MaxBareCells), BareCell)

\* min_separation_frac: -0.1, 0, the default 0.05, 0.4, 0.5.
MinSeps == { 0 - (SepDen \div 10), 0, SepDen \div 20, (2 * SepDen) \div 5,
             SepDen \div 2 }
TopNs == 0..MaxTopN

\* The long grids: BigN cells along one axis, more than 2 * PoolFactor.
BigMid == (BigN - 1) \div 2
BigLevel(kind, i) ==
    CASE kind = "descending" -> BigN - i
      [] kind = "middle_last" -> IF i = BigMid THEN 1 ELSE BigN - i + 1
      [] kind = "tied_tail" -> IF i >= 2 * PoolFactor - 1 THEN 1 ELSE BigN - i
BigFiles ==
    { [ dims |-> d, data |-> [i \in Indices(d) |-> BigLevel(kind, i) * ValStep],
        lattice |-> CubicCell.lattice, atoms |-> CubicCell.atoms ]
      : d \in { <<1, 1, BigN>>, <<BigN, 1, 1>> },
        kind \in {"descending", "middle_last", "tied_tail"} }

(***************************************************************************)
(* analyze_elfcar_with_hotspots and _extract_hotspots.                     *)
(***************************************************************************)
\* Faulty variant: min_separation_frac is not checked.
ArgsValidTopNOnly(n, min_sep) == n >= 1

\* elf.py:81-84: the two argument checks.
ArgsValid(n, min_sep) == n >= 1 /\ min_sep >= 0

\* Faulty variant: a pass that falls short leaves the pool as large as it was.
NotWidened(size, count) == count

\* elf.py:198
InitialCandidateCount(size, n) == Min(size, Max(n * PoolFactor, n))
\* elf.py:240
WidenedCandidateCount(size, count) == Min(size, count * 2)

\* Faulty variant: the loop gives up after any pass that did not reach top_n.
AlwaysCovers(size, count) == TRUE

\* elf.py:238  candidate_count >= flat.size
PoolCoversGrid(size, count) == count >= size

\* elf.py:100-106
ElfMetrics(top, average) ==
    [ max_elf |-> top.elf_value,
      max_frac_coord |-> top.frac_coord,
      max_cart_coord |-> top.cart_coord,
      shortest_distance |-> top.shortest_distance,
      average_elf |-> average ]

LayerIdle ==
    /\ sites = << >>
    /\ vacuum_direction = 0
    /\ gap_threshold = 0
    /\ coords = << >>
    /\ num_layers = << >>
    /\ lpc = "idle"

BondIdle ==
    /\ bond_structure = [lattice |-> <<0, 0, 0>>, sites |-> << >>]
    /\ max_distance = 0
    /\ bond_vacuum_direction = 0
    /\ site_index = 0
    /\ visited = {}
    /\ in_plane = << >>
    /\ interlayer = << >>
    /\ processed_bonds = {}
    /\ counted = << >>
    /\ scaling_matrix = << >>
    /\ supercell_lattice = << >>
    /\ summaries = << >>
    /\ bpc = "idle"

GeometryIdle ==
    /\ geo_call = "idle"
    /\ geo_dims = <<0, 0, 0>>
    /\ geo_index = <<0, 0, 0>>
    /\ geo_a = <<0, 0, 0>>
    /\ geo_b = <<0, 0, 0>>
    /\ geo_frac = << >>
    /\ geo_dist = << >>
    /\ geo_dist_rev = << >>

DirectoryIdle ==
    /\ candidates = << >>
    /\ labelled = << >>
    /\ queue = << >>
    /\ analysed = << >>
    /\ results = << >>
    /\ dir_raised = ""
    /\ dpc = "idle"

GenerateIdle ==
    /\ structure_type = << >>
    /\ layer_counts = << >>
    /\ pending = << >>
    /\ seen = {}
    /\ created_paths = << >>
    /\ prepared = << >>
    /\ gen_raised = ""
    /\ gen_returned = << >>
    /\ gpc = "idle"

PrepareIdle ==
    /\ submit_jobs = FALSE
    /\ written = << >>
    /\ submitted = << >>
    /\ ppc = 0

StructureIdle ==
    /\ bls_call = ""
    /\ api_key = << >>
    /\ max_energy_above_hull = << >>
    /\ bls_structure_type = << >>
    /\ bls_layer_count = 0
    /\ available = << >>
    /\ queries = 0
    /\ docs = << >>
    /\ selected_doc = << >>
    /\ built = << >>
    /\ bls_raised = ""
    /\ spc = "idle"

CliIdle ==
    /\ cli_file = << >>
    /\ cli_directory = << >>
    /\ cli_top_n = 0
    /\ cli_analysed = << >>
    /\ cli_outputs = << >>
    /\ cli_exit = << >>
    /\ cli_raised = ""
    /\ cpc = "idle"

Init ==
    /\ \/ /\ file \in SmallFiles
          /\ top_n \in TopNs
          /\ min_separation_frac \in MinSeps
       \/ /\ file \in BigFiles
          /\ top_n = 2
          /\ min_separation_frac \in {SepDen \div 2, (3 * SepDen) \div 5}
    /\ pc = "validate"
    /\ loaded = FALSE
    /\ extract_called = FALSE
    /\ elf_data = [i \in {} |-> 0]
    /\ grid_dimensions = <<0, 0, 0>>
    /\ lattice_vectors = << >>
    /\ atomic_positions_cart = << >>
    /\ average_elf = 0
    /\ candidate_count = 0
    /\ processed = {}
    /\ accepted_frac = << >>
    /\ hotspots = << >>
    /\ pool = {}
    /\ scanned = {}
    /\ passes = 0
    /\ evaluations = 0
    /\ raised = ""
    /\ returned = << >>
    /\ LayerIdle
    /\ BondIdle
    /\ GeometryIdle
    /\ DirectoryIdle
    /\ GenerateIdle
    /\ PrepareIdle
    /\ StructureIdle
    /\ CliIdle

\* Faulty variant: an index examined in an earlier pass is examined again.
NeverProcessed(raw_index, examined) == FALSE

\* elf.py:209-210  if raw_index in processed: continue
AlreadyProcessed(raw_index, examined) == raw_index \in examined

\* elf.py:81-84
Validate ==
    /\ pc = "validate"
    /\ IF ArgsValid(top_n, min_separation_frac)
       THEN /\ pc' = "load"
            /\ raised' = raised
       ELSE /\ pc' = "done"
            /\ raised' = "ValueError"
    /\ UNCHANGED <<file, top_n, min_separation_frac, loaded, extract_called,
                   elf_data, grid_dimensions, lattice_vectors,
                   atomic_positions_cart, average_elf, candidate_count,
                   processed, accepted_frac, hotspots, pool, scanned, passes,
                   returned, evaluations, restElf>>

\* elf.py:86-87
LoadContext ==
    /\ pc = "load"
    /\ loaded' = TRUE
    /\ elf_data' = file.data
    /\ grid_dimensions' = file.dims
    /\ lattice_vectors' = file.lattice
    /\ atomic_positions_cart' = file.atoms
    /\ average_elf' = MeanRounded(file.data, file.dims)
    /\ pc' = "extract"
    /\ UNCHANGED <<file, top_n, min_separation_frac, extract_called,
                   candidate_count, processed, accepted_frac, hotspots, pool,
                   scanned, passes, raised, returned, evaluations, restElf>>

\* elf.py:88, 194-201
ExtractEnter ==
    /\ pc = "extract"
    /\ extract_called' = TRUE
    /\ processed' = {}
    /\ accepted_frac' = << >>
    /\ hotspots' = << >>
    /\ IF Size(grid_dimensions) = 0
       THEN /\ pc' = "check"
            /\ candidate_count' = candidate_count
       ELSE /\ pc' = "while"
            /\ candidate_count' = InitialCandidateCount(Size(grid_dimensions), top_n)
    /\ UNCHANGED <<file, top_n, min_separation_frac, loaded, elf_data,
                   grid_dimensions, lattice_vectors, atomic_positions_cart,
                   average_elf, pool, scanned, passes, raised, returned,
                   evaluations, restElf>>

\* elf.py:203-205: the loop test, and the pool of the pass.
WhilePass ==
    /\ pc = "while"
    /\ IF Len(hotspots) < top_n
       THEN /\ pool' \in TopSets(elf_data, grid_dimensions, candidate_count)
            /\ scanned' = {}
            /\ passes' = passes + 1
            /\ pc' = "for"
       ELSE /\ pc' = "check"
            /\ UNCHANGED <<pool, scanned, passes>>
    /\ UNCHANGED <<file, top_n, min_separation_frac, loaded, extract_called,
                   elf_data, grid_dimensions, lattice_vectors,
                   atomic_positions_cart, average_elf, candidate_count,
                   processed, accepted_frac, hotspots, raised, returned,
                   evaluations, restElf>>

\* elf.py:207-236: one iteration of the for loop over ordered_indices.
ForStep ==
    /\ pc = "for"
    /\ scanned # pool
    /\ \E raw_index \in Highest(elf_data, pool \ scanned) :
        LET frac_coord == index_to_frac(unravel_index(raw_index, grid_dimensions),
                                        grid_dimensions)
        IN  /\ scanned' = scanned \cup {raw_index}
            /\ processed' = processed \cup {raw_index}
            /\ evaluations' = IF AlreadyProcessed(raw_index, processed)
                               THEN evaluations ELSE evaluations + 1
            /\ IF /\ ~AlreadyProcessed(raw_index, processed)
                  /\ is_far_enough_frac(frac_coord, accepted_frac,
                                        min_separation_frac, FracDen(grid_dimensions))
               THEN /\ accepted_frac' = Append(accepted_frac, frac_coord)
                    /\ hotspots' = Append(hotspots,
                          ElfHotspot(Len(hotspots) + 1, raw_index, frac_coord,
                                     elf_data, grid_dimensions, lattice_vectors,
                                     atomic_positions_cart))
                    /\ pc' = IF Len(hotspots) + 1 >= top_n THEN "check" ELSE "for"
               ELSE /\ UNCHANGED <<accepted_frac, hotspots, pc>>
    /\ UNCHANGED <<file, top_n, min_separation_frac, loaded, extract_called,
                   elf_data, grid_dimensions, lattice_vectors,
                   atomic_positions_cart, average_elf, candidate_count, pool,
                   passes, raised, returned, restElf>>

\* elf.py:238-240: the for loop is exhausted.
ForEnd ==
    /\ pc = "for"
    /\ scanned = pool
    /\ IF PoolCoversGrid(Size(grid_dimensions), candidate_count)
       THEN /\ pc' = "check"
            /\ candidate_count' = candidate_count
       ELSE /\ pc' = "while"
            /\ candidate_count' = WidenedCandidateCount(Size(grid_dimensions),
                                                        candidate_count)
    /\ UNCHANGED <<file, top_n, min_separation_frac, loaded, extract_called,
                   elf_data, grid_dimensions, lattice_vectors,
                   atomic_positions_cart, average_elf, processed, accepted_frac,
                   hotspots, pool, scanned, passes, raised, returned, evaluations, restElf>>

\* Faulty variant: without hotspots a result with blank metrics is returned.
FinishSilent ==
    /\ pc = "check"
    /\ raised' = raised
    /\ returned' = << [ metrics |-> IF Len(hotspots) = 0
                                    THEN [ max_elf |-> NaN, max_frac_coord |-> << >>,
                                           max_cart_coord |-> << >>,
                                           shortest_distance |-> NaN,
                                           average_elf |-> average_elf ]
                                    ELSE ElfMetrics(hotspots[1], average_elf),
                        hotspots |-> hotspots ] >>
    /\ pc' = "done"
    /\ UNCHANGED <<file, top_n, min_separation_frac, loaded, extract_called,
                   elf_data, grid_dimensions, lattice_vectors,
                   atomic_positions_cart, average_elf, candidate_count,
                   processed, accepted_frac, hotspots, pool, scanned, passes,
                   evaluations, restElf>>

\* Faulty variant: the metrics are taken from the last hotspot.
FinishFromLast ==
    /\ pc = "check"
    /\ IF Len(hotspots) = 0
       THEN /\ raised' = "RuntimeError"
            /\ returned' = returned
       ELSE /\ raised' = raised
            /\ returned' = << [ metrics |-> ElfMetrics(hotspots[Len(hotspots)],
                                                       average_elf),
                                hotspots |-> hotspots ] >>
    /\ pc' = "done"
    /\ UNCHANGED <<file, top_n, min_separation_frac, loaded, extract_called,
                   elf_data, grid_dimensions, lattice_vectors,
                   atomic_positions_cart, average_elf, candidate_count,
                   processed, accepted_frac, hotspots, pool, scanned, passes,
                   evaluations, restElf>>

\* elf.py:96-107
Finish ==
    /\ pc = "check"
    /\ IF Len(hotspots) = 0
       THEN /\ raised' = "RuntimeError"
            /\ returned' = returned
       ELSE /\ raised' = raised
            /\ returned' = << [ metrics |-> ElfMetrics(hotspots[1], average_elf),
                                hotspots |-> hotspots ] >>
    /\ pc' = "done"
    /\ UNCHANGED <<file, top_n, min_separation_frac, loaded, extract_called,
                   elf_data, grid_dimensions, lattice_vectors,
                   atomic_positions_cart, average_elf, candidate_count,
                   processed, accepted_frac, hotspots, pool, scanned, passes,
                   evaluations, restElf>>

Next ==
    \/ Validate
    \/ LoadContext
    \/ ExtractEnter
    \/ WhilePass
    \/ ForStep
    \/ ForEnd
    \/ Finish

Spec == Init /\ [][Next]_vars

(***************************************************************************)
(* _count_layers.                                                          *)
(***************************************************************************)
RECURSIVE Insert(_, _)
Insert(x, s) ==
    IF s = << >> THEN <<x>>
    ELSE IF x <= Head(s) THEN <<x>> \o s
    ELSE <<Head(s)>> \o Insert(x, Tail(s))

RECURSIVE Sorted(_)
\* sorted(s): ascending.
Sorted(s) == IF s = << >> THEN << >> ELSE Insert(Head(s), Sorted(Tail(s)))

\* bonds.py:69  site.coords[vacuum_direction] for site in structure
AxisCoords(structure, axis) == [k \in 1..Len(structure) |-> structure[k][axis + 1]]

\* Faulty variant: a gap equal to the threshold starts a layer.
IsGapOrEqual(a, b, threshold) == (b - a) >= threshold

\* bonds.py:70  the test of one consecutive pair
IsGap(a, b, threshold) == (b - a) > threshold

\* bonds.py:70  sum(1 for a, b in zip(coords, coords[1:]) if ...)
CountGaps(sorted_coords, threshold) ==
    Cardinality({k \in 1..(Len(sorted_coords) - 1) :
                    IsGap(sorted_coords[k], sorted_coords[k + 1], threshold)})

\* The sites of a structure whose vacuum axis is `axis`: the coordinate along
\* that axis is any of 0..MaxCoord; the two in-plane coordinates are equal and
\* one of 0 and MaxCoord (the operation reads the vacuum axis only).
SitesOf(axis) ==
    {c \in [1..3 -> 0..MaxCoord] :
        \A a, b \in (1..3) \ {axis + 1} : c[a] = c[b] /\ c[a] \in {0, MaxCoord}}
Structures(axis) == UNION {[1..n -> SitesOf(axis)] : n \in 0..MaxSites}

ElfIdle ==
    /\ file = [ dims |-> <<0, 0, 0>>, data |-> [i \in {} |-> 0],
                lattice |-> << >>, atoms |-> << >> ]
    /\ top_n = 1
    /\ min_separation_frac = 0
    /\ pc = "idle"
    /\ loaded = FALSE
    /\ extract_called = FALSE
    /\ elf_data = [i \in {} |-> 0]
    /\ grid_dimensions = <<0, 0, 0>>
    /\ lattice_vectors = << >>
    /\ atomic_positions_cart = << >>
    /\ average_elf = 0
    /\ candidate_count = 0
    /\ processed = {}
    /\ accepted_frac = << >>
    /\ hotspots = << >>
    /\ pool = {}
    /\ scanned = {}
    /\ passes = 0
    /\ evaluations = 0
    /\ raised = ""
    /\ returned = << >>

InitLayers ==
    /\ vacuum_direction \in 0..2
    /\ sites \in Structures(vacuum_direction)
    /\ gap_threshold \in 0..DefaultGapThreshold
    /\ coords = << >>
    /\ num_layers = << >>
    /\ lpc = "sort"
    /\ ElfIdle
    /\ BondIdle
    /\ GeometryIdle
    /\ DirectoryIdle
    /\ GenerateIdle
    /\ PrepareIdle
    /\ StructureIdle
    /\ CliIdle

\* bonds.py:69
SortCoords ==
    /\ lpc = "sort"
    /\ coords' = Sorted(AxisCoords(sites, vacuum_direction))
    /\ lpc' = "count"
    /\ UNCHANGED <<sites, vacuum_direction, gap_threshold, num_layers, restLayers>>

\* bonds.py:70-71
CountLayers ==
    /\ lpc = "count"
    /\ num_layers' = << CountGaps(coords, gap_threshold) + 1 >>
    /\ lpc' = "done"
    /\ UNCHANGED <<sites, vacuum_direction, gap_threshold, coords, restLayers>>

NextLayers ==
    \/ SortCoords
    \/ CountLayers

SpecLayers == InitLayers /\ [][NextLayers]_vars

(***************************************************************************)
(* Properties of _extract_hotspots and analyze_elfcar_with_hotspots.       *)
(***************************************************************************)
\* The flat index of the grid point with fractional coordinates frac (a
\* numerator over FracDen(dims) per axis): the grid index on axis a is
\* frac[a] * max(dims[a] - 1, 1), and the flat index is its C-order position.
IndexOfFrac(frac, dims) ==
    LET g(a) == (frac[a] * (IF dims[a] > 1 THEN dims[a] - 1 ELSE 1)) \div FracDen(dims)
    IN  (g(1) * dims[2] + g(2)) * dims[3] + g(3)

\* The flat indices of the accepted hotspots, by rank.
AcceptedIndex == [k \in 1..Len(accepted_frac) |->
                     IndexOfFrac(accepted_frac[k], grid_dimensions)]

\* Periodic fractional distance of grid points i and j at least min_sep:
\* per axis w = min(|d|, 1 - |d|), then sqrt(w1^2 + w2^2 + w3^2) >= min_sep,
\* with the coordinate of index v on an axis of d cells being v / max(d - 1, 1).
Separated(i, j, dims, min_sep) ==
    LET gi == unravel_index(i, dims)
        gj == unravel_index(j, dims)
        den(a) == IF dims[a] > 1 THEN dims[a] - 1 ELSE 1
        all == den(1) * den(2) * den(3)
        d(a) == IF gi[a] >= gj[a] THEN gi[a] - gj[a] ELSE gj[a] - gi[a]
        \* the wrapped difference on axis a, scaled to the denominator `all`
        w(a) == (IF d(a) <= den(a) - d(a) THEN d(a) ELSE den(a) - d(a))
                * (all \div den(a))
    IN  (w(1) * w(1) + w(2) * w(2) + w(3) * w(3)) * SepDen * SepDen
            >= min_sep * min_sep * all * all

\* C1: any two distinct accepted hotspots are at periodic fractional distance
\* >= min_separation_frac, after every acceptance and in every pass; the
\* hotspot list and the list of accepted coordinates grow together.
C1_PairwiseSeparated ==
    /\ Len(hotspots) = Len(accepted_frac)
    /\ \A i, j \in 1..Len(accepted_frac) :
          i # j => Separated(AcceptedIndex[i], AcceptedIndex[j],
                             grid_dimensions, min_separation_frac)
    /\ returned # << >> => returned[1].hotspots = hotspots

\* C1 witness: a second hotspot is accepted in a widened pass after nearer
\* candidates were turned down.
C1_Witness ==
    /\ Len(hotspots) >= 2
    /\ min_separation_frac > 0
    /\ passes >= 2
    /\ Cardinality(processed) > Len(hotspots)

\* C2: the hotspot at position i has rank i, and both the grid values and the
\* reported (rounded) values of the hotspots are non-increasing by rank.
C2_RanksAndValuesOrdered ==
    /\ \A i \in 1..Len(hotspots) : hotspots[i].rank = i
    /\ \A i, j \in 1..Len(hotspots) :
          i < j => /\ elf_data[AcceptedIndex[i]] >= elf_data[AcceptedIndex[j]]
                   /\ hotspots[i].elf_value >= hotspots[j].elf_value
    /\ returned # << >> => returned[1].hotspots = hotspots

\* C2 witness: a hotspot of smaller value is accepted in the second pass.
C2_Witness ==
    /\ passes = 2
    /\ Len(hotspots) = 2
    /\ hotspots[2].elf_value < hotspots[1].elf_value
    /\ returned # << >>

\* C3 as stated: a returned result holds exactly top_n hotspots.
C3_LengthIsTopN ==
    returned # << >> => Len(returned[1].hotspots) = top_n

\* C3 amended: a returned result holds at least one and at most top_n
\* hotspots, and fewer than top_n only when the pool had grown to the whole
\* grid, every grid point was examined and every grid point that is not a
\* returned hotspot is closer than min_separation_frac to one.
C3_LengthAtMostTopN ==
    returned # << >> =>
        LET n == Len(returned[1].hotspots)
        IN  /\ 1 <= n
            /\ n <= top_n
            /\ n < top_n =>
                  /\ candidate_count = Size(file.dims)
                  /\ processed = Indices(file.dims)
                  /\ \A j \in Indices(file.dims) \ {AcceptedIndex[k] : k \in 1..n} :
                        \E k \in 1..n :
                            ~Separated(j, AcceptedIndex[k], file.dims,
                                       min_separation_frac)

\* C3 witness: a result with fewer hotspots than asked for, after a widening.
C3_Witness ==
    /\ returned # << >>
    /\ Len(returned[1].hotspots) < top_n
    /\ passes >= 2

\* The values of the grid are pairwise distinct.
DistinctValues ==
    Cardinality({file.data[i] : i \in Indices(file.dims)}) = Size(file.dims)

\* C4 as stated: on a grid of pairwise distinct values the k-th hotspot
\* returned is the highest-valued grid point separated by min_separation_frac
\* from each of the hotspots 1..k-1.
C4_KthIsHighestSeparated ==
    (returned # << >> /\ DistinctValues) =>
        \A k \in 1..Len(returned[1].hotspots) :
            LET eligible == {j \in Indices(file.dims) :
                                \A m \in 1..(k - 1) :
                                    Separated(j, AcceptedIndex[m], file.dims,
                                              min_separation_frac)}
            IN  /\ AcceptedIndex[k] \in eligible
                /\ \A j \in eligible :
                      file.data[j] <= file.data[AcceptedIndex[k]]

\* The grid points a greedy scan may still take after hotspots 1..n: not taken
\* yet, and separated by min_separation_frac from each of them.
Eligible(n) ==
    {j \in Indices(file.dims) \ {AcceptedIndex[m] : m \in 1..n} :
        \A m \in 1..n : Separated(j, AcceptedIndex[m], file.dims,
                                  min_separation_frac)}

\* C4 amended: on a grid of pairwise distinct values the k-th hotspot returned
\* is the highest-valued grid point, other than the hotspots 1..k-1, separated
\* by min_separation_frac from each of them, and the list stops short of top_n
\* only when no such point is left: the result of a greedy scan of the whole
\* grid in descending order, whatever the pool sizes were.
C4_GreedyScan ==
    (returned # << >> /\ DistinctValues) =>
        LET n == Len(returned[1].hotspots)
        IN  /\ n = Len(accepted_frac)
            /\ n <= top_n
            /\ \A k \in 1..n :
                  /\ AcceptedIndex[k] \in Eligible(k - 1)
                  /\ \A j \in Eligible(k - 1) :
                        file.data[j] <= file.data[AcceptedIndex[k]]
            /\ n < top_n => Eligible(n) = {}

\* C4 witness: on a grid of distinct values the second hotspot is taken in the
\* second pass, after higher-valued points too close to the first were skipped.
C4_Witness ==
    /\ returned # << >>
    /\ DistinctValues
    /\ passes = 2
    /\ Len(returned[1].hotspots) = 2
    /\ \E j \in processed :
          /\ file.data[j] > file.data[AcceptedIndex[2]]
          /\ ~Separated(j, AcceptedIndex[1], file.dims, min_separation_frac)
          /\ j # AcceptedIndex[1]

\* C5: with top_n < 1 or min_separation_frac < 0 the call ends in ValueError
\* and neither _load_elf_context nor _extract_hotspots is ever invoked.
C5_InvalidArgumentsFailFirst ==
    (top_n < 1 \/ min_separation_frac < 0) =>
        /\ ~loaded
        /\ ~extract_called
        /\ returned = << >>
        /\ pc \in {"validate", "done"}
        /\ pc = "done" => raised = "ValueError"

\* C5 witness: a negative separation with a valid top_n and a non-empty file
\* has been turned down.
C5_Witness ==
    /\ pc = "done"
    /\ raised = "ValueError"
    /\ top_n >= 1
    /\ min_separation_frac < 0
    /\ Size(file.dims) > 0

\* C6: on an empty grid the call ends in RuntimeError and returns nothing; a
\* result that is returned was produced without an exception, holds at least
\* one hotspot, each hotspot is a grid point of the file (its value and
\* coordinates are those of that point), and the five metrics are numbers
\* taken from one of these hotspots and from the grid's mean.
C6_NoResultWithoutHotspot ==
    /\ (pc = "done" /\ top_n >= 1 /\ min_separation_frac >= 0
            /\ Size(file.dims) = 0)
          => (raised = "RuntimeError" /\ returned = << >>)
    /\ returned # << >> =>
          /\ raised = ""
          /\ Len(returned[1].hotspots) >= 1
          /\ \A k \in 1..Len(returned[1].hotspots) :
                LET h == returned[1].hotspots[k]
                    g == unravel_index(AcceptedIndex[k], file.dims)
                IN  /\ h.elf_value = RoundHalfEven(file.data[AcceptedIndex[k]], 10)
                    /\ \A a \in 1..3 :
                          h.frac_coord[a] =
                              RoundHalfEven(g[a] * 100000,
                                            IF file.dims[a] > 1 THEN file.dims[a] - 1 ELSE 1)
          /\ \E k \in 1..Len(returned[1].hotspots) :
                LET h == returned[1].hotspots[k]
                    m == returned[1].metrics
                IN  /\ m.max_elf = h.elf_value
                    /\ m.max_frac_coord = h.frac_coord
                    /\ m.max_cart_coord = h.cart_coord
                    /\ m.shortest_distance = h.shortest_distance
          /\ returned[1].metrics.average_elf # NaN

\* C6 witness: the empty grid was loaded and the call ended in RuntimeError.
C6_Witness ==
    /\ pc = "done"
    /\ loaded
    /\ extract_called
    /\ Size(file.dims) = 0
    /\ raised = "RuntimeError"

\* C7: the metrics are those of the rank-1 hotspot, and the rank-1 hotspot is a
\* grid point holding the largest value of the grid.
C7_MetricsFromGlobalMaximum ==
    returned # << >> =>
        LET top == returned[1].hotspots[1]
            m == returned[1].metrics
        IN  /\ top.rank = 1
            /\ m.max_elf = top.elf_value
            /\ m.max_frac_coord = top.frac_coord
            /\ m.max_cart_coord = top.cart_coord
            /\ m.shortest_distance = top.shortest_distance
            /\ top.elf_value = RoundHalfEven(file.data[AcceptedIndex[1]], 10)
            /\ \A j \in Indices(file.dims) :
                  file.data[j] <= file.data[AcceptedIndex[1]]

\* C7 witness: a result with several hotspots of different reported values.
C7_Witness ==
    /\ returned # << >>
    /\ Len(returned[1].hotspots) >= 2
    /\ returned[1].metrics.max_elf >
          returned[1].hotspots[Len(returned[1].hotspots)].elf_value

\* C8: average_elf is the mean of all grid elements rounded to 5 decimals (it
\* is within half a unit of the fifth decimal of the exact mean), whatever
\* top_n and min_separation_frac are and whatever the extraction did.
C8_AverageIsGridMean ==
    returned # << >> =>
        LET a == returned[1].metrics.average_elf
            n == Size(file.dims)
            total == SumRange(file.data, 0, n - 1)
            diff == 10 * n * a - total
        IN  /\ a = average_elf
            /\ 2 * diff <= 10 * n
            /\ 2 * diff >= 0 - 10 * n

\* C8 witness: a result whose extraction turned candidates down, on a grid
\* whose mean is not a multiple of 10^-5.
C8_Witness ==
    /\ returned # << >>
    /\ top_n > 1
    /\ min_separation_frac > 0
    /\ Cardinality(processed) > Len(hotspots)
    /\ SumRange(file.data, 0, Size(file.dims) - 1) % (10 * Size(file.dims)) # 0

(***************************************************************************)
(* Properties of _count_layers.                                            *)
(***************************************************************************)
\* The vacuum-axis coordinates of the structure's sites, as a set.
AxisValues == {sites[k][vacuum_direction + 1] : k \in 1..Len(sites)}

\* The coordinates that start a layer above another one: some site lies
\* below, and every site below lies more than gap_threshold below. These are
\* the upper ends of the consecutive pairs of the ascending coordinates whose
\* difference exceeds the threshold.
LayerStarts ==
    {c \in AxisValues :
        /\ \E d \in AxisValues : d < c
        /\ \A d \in AxisValues : d < c => c - d > gap_threshold}

\* C9: _count_layers returns the number of consecutive pairs of the ascending
\* vacuum-axis coordinates that differ by more than gap_threshold, plus 1; it
\* works on the coordinates in ascending order, one site gives 1, and a gap
\* equal to the threshold starts no layer.
C9_LayersAreGapsPlusOne ==
    /\ lpc \in {"count", "done"} =>
          /\ Len(coords) = Len(sites)
          /\ \A k \in 1..(Len(coords) - 1) : coords[k] <= coords[k + 1]
          /\ \A v \in AxisValues :
                Cardinality({k \in 1..Len(coords) : coords[k] = v}) =
                Cardinality({k \in 1..Len(sites) :
                                sites[k][vacuum_direction + 1] = v})
    /\ lpc = "done" =>
          /\ num_layers = << Cardinality(LayerStarts) + 1 >>
          /\ Len(sites) = 1 => num_layers = <<1>>

\* C9 witness: three sites, one gap equal to the threshold and one above it:
\* two layers.
C9_Witness ==
    /\ lpc = "done"
    /\ Len(sites) = 3
    /\ gap_threshold > 0
    /\ num_layers = <<2>>
    /\ \E k \in 1..2 : coords[k + 1] - coords[k] = gap_threshold
    /\ \E k \in 1..2 : coords[k + 1] - coords[k] > gap_threshold

\* C10: for a structure without sites the detector reports nothing (it
\* rejects the input) or reports 0 layers; it never reports one or more.
C10_NoSitesNoLayers ==
    Len(sites) = 0 => num_layers \in { << >>, <<0>> }

(***************************************************************************)
(* _collect_bonds, _resolve_bond_key, _build_supercell, _dict_to_summaries *)
(* (src/layer_toolkit/analysis/bonds.py).                                  *)
(*                                                                         *)
(* Numbers.  A Cartesian coordinate and a bond length are integers in      *)
(* units of 1/UnitsPerMilli of 0.001 angstrom; the norm of a displacement  *)
(* is its square root to the nearest unit.  The lattice is orthogonal, a   *)
(* triple of edge lengths.  get_neighbors (pymatgen) is taken to return    *)
(* every periodic image of every site at a distance in (0, max_distance],  *)
(* in an order that is not specified: the model lets every order happen.   *)
(* A neighbour that is a site of the cell has that site's coordinates.     *)
(***************************************************************************)
\* Length resolution: units per 0.001 angstrom.
UnitsPerMilli == 4
\* Periodic images -MaxImage..MaxImage per axis are looked at.
MaxImage == 2
\* A structure has at most MaxBondSites sites in a wide cell, and at most
\* MaxNarrowSites in a cell with one edge shorter than max_distance.
MaxBondSites == 3
MaxNarrowSites == 2

Angstrom == 1000 * UnitsPerMilli
\* bonds.py:121  tolerance: float = 0.008
Tolerance == 8 * UnitsPerMilli
\* bonds.py:43  max_distance: float = 3.0
DefaultMaxDistance == 3 * Angstrom

NormSq(v) == v[1] * v[1] + v[2] * v[2] + v[3] * v[3]

RECURSIVE SqrtFloor(_, _, _)
\* The largest r in lo..hi with r*r <= n.
SqrtFloor(n, lo, hi) ==
    IF lo >= hi THEN lo
    ELSE LET mid == (lo + hi + 1) \div 2
         IN  IF mid * mid <= n THEN SqrtFloor(n, mid, hi)
             ELSE SqrtFloor(n, lo, mid - 1)

\* np.linalg.norm(vector), to the nearest unit.
Norm(v) ==
    LET n == NormSq(v)
        top == 2 * Max(Abs(v[1]), Max(Abs(v[2]), Abs(v[3])))
        r == SqrtFloor(n, 0, top)
    IN  IF n - r * r > r THEN r + 1 ELSE r

\* Faulty variant: the length of a new key is rounded to one decimal.
Round1(length) ==
    RoundHalfEven(length, 100 * UnitsPerMilli) * (100 * UnitsPerMilli)

\* bonds.py:125  round(bond_length, 3)
Round3(length) == RoundHalfEven(length, UnitsPerMilli) * UnitsPerMilli

\* Faulty variant: a length exactly `tolerance` away does not match.
StrictlyWithin(a, b, tolerance) == Abs(a - b) < tolerance

\* bonds.py:123  abs(key[1] - bond_length) <= tolerance
WithinTolerance(a, b, tolerance) == Abs(a - b) <= tolerance

\* bonds.py:121-125.  A bucket is a dict, held as the sequence of its items
\* [key, count] in insertion order; a key is [bond_type, length].
resolve_bond_key(bucket, bond_type, bond_length, tolerance) ==
    LET matches == {k \in 1..Len(bucket) :
                       /\ bucket[k].key.bond_type = bond_type
                       /\ WithinTolerance(bucket[k].key.length, bond_length, tolerance)}
    IN  IF matches # {}
        THEN bucket[CHOOSE k \in matches : \A m \in matches : k <= m].key
        ELSE [bond_type |-> bond_type, length |-> Round3(bond_length)]

\* Faulty variant: a key met again is deleted and inserted anew, at the end.
BucketReinsert(bucket, key) ==
    IF \E k \in 1..Len(bucket) : bucket[k].key = key
    THEN LET at == CHOOSE k \in 1..Len(bucket) : bucket[k].key = key
         IN  Append(SubSeq(bucket, 1, at - 1) \o SubSeq(bucket, at + 1, Len(bucket)),
                    [bucket[at] EXCEPT !.count = @ + 1])
    ELSE Append(bucket, [key |-> key, count |-> 1])

\* Faulty variant: the count of a key met again starts over.
BucketOverwrite(bucket, key) ==
    IF \E k \in 1..Len(bucket) : bucket[k].key = key
    THEN [k \in 1..Len(bucket) |->
             IF bucket[k].key = key
             THEN [bucket[k] EXCEPT !.count = 1]
             ELSE bucket[k]]
    ELSE Append(bucket, [key |-> key, count |-> 1])

\* bonds.py:110  bucket[key] = bucket.get(key, 0) + 1
BucketIncrement(bucket, key) ==
    IF \E k \in 1..Len(bucket) : bucket[k].key = key
    THEN [k \in 1..Len(bucket) |->
             IF bucket[k].key = key
             THEN [bucket[k] EXCEPT !.count = @ + 1]
             ELSE bucket[k]]
    ELSE Append(bucket, [key |-> key, count |-> 1])

\* bonds.py:95-96  a fractional coordinate < 0 or >= 1 on some axis
OutsideCell(point, lattice) ==
    \E a \in 1..3 : point[a] < 0 \/ point[a] >= lattice[a]

\* The image shifts n of one axis that keep |delta + n * edge| within reach.
ImageShifts(delta, edge, reach) ==
    {n \in (0 - MaxImage)..MaxImage : Abs(delta + n * edge) <= reach}

\* bonds.py:93  structure.get_neighbors(site, max_distance): the coordinates
\* of the neighbours.
get_neighbors(struct, site, reach) ==
    LET shifts(k, a) == ImageShifts(struct.sites[k][a] - site[a],
                                    struct.lattice[a], reach)
        images(k) == {[a \in 1..3 |-> struct.sites[k][a] + n[a] * struct.lattice[a]] :
                         n \in {<<n1, n2, n3>> : n1 \in shifts(k, 1),
                                                 n2 \in shifts(k, 2),
                                                 n3 \in shifts(k, 3)}}
        near == UNION {images(k) : k \in 1..Len(struct.sites)}
        vector(c) == [a \in 1..3 |-> site[a] - c[a]]
    IN  {c \in near : NormSq(vector(c)) > 0 /\ NormSq(vector(c)) <= reach * reach}

\* Python's order of two coordinate tuples.
TupleLessEq(x, y) ==
    \/ x[1] < y[1]
    \/ x[1] = y[1] /\ x[2] < y[2]
    \/ x[1] = y[1] /\ x[2] = y[2] /\ x[3] <= y[3]

\* Faulty variant: the pair is kept in the order it was met.
bond_id_unsorted(site, neighbor) == <<site, neighbor>>

\* bonds.py:99  tuple(sorted((tuple(site.coords), tuple(neighbor.coords))))
bond_id(site, neighbor) ==
    IF TupleLessEq(site, neighbor) THEN <<site, neighbor>> ELSE <<neighbor, site>>

\* Faulty variant: the signed components are compared (np.abs is missing).
ArgMaxSigned(vector) ==
    CHOOSE i \in 0..2 :
        /\ \A j \in 0..2 : vector[j + 1] <= vector[i + 1]
        /\ \A j \in 0..(i - 1) : vector[j + 1] < vector[i + 1]

\* bonds.py:105  int(np.argmax(np.abs(vector))): the first axis (0-based) whose
\* absolute component is the largest.
ArgMaxAbs(vector) ==
    CHOOSE i \in 0..2 :
        /\ \A j \in 0..2 : Abs(vector[j + 1]) <= Abs(vector[i + 1])
        /\ \A j \in 0..(i - 1) : Abs(vector[j + 1]) < Abs(vector[i + 1])

\* bonds.py:105
BondType(vector, axis) ==
    IF ArgMaxAbs(vector) = axis THEN "interlayer" ELSE "in-plane"

\* bonds.py:75-76  np.diag([3, 3, 3]) with row vacuum_direction set to [1, 1, 1]
ScalingMatrix(axis) ==
    [i \in 1..3 |->
        IF i = axis + 1 THEN <<1, 1, 1>>
        ELSE [j \in 1..3 |-> IF i = j THEN 3 ELSE 0]]

\* The rows of the lattice matrix of an orthogonal cell.
LatticeRows(lattice) ==
    [i \in 1..3 |-> [j \in 1..3 |-> IF i = j THEN lattice[i] ELSE 0]]

\* bonds.py:79  make_supercell: each new lattice vector is the combination of
\* the old ones that its row of the scaling matrix gives.
SupercellLattice(scaling, lattice) ==
    [i \in 1..3 |-> [j \in 1..3 |->
        scaling[i][1] * LatticeRows(lattice)[1][j]
        + scaling[i][2] * LatticeRows(lattice)[2][j]
        + scaling[i][3] * LatticeRows(lattice)[3][j]]]

RECURSIVE InsertByLength(_, _)
InsertByLength(item, sorted) ==
    IF sorted = << >> THEN <<item>>
    ELSE IF item.length < Head(sorted).length THEN <<item>> \o sorted
    ELSE <<Head(sorted)>> \o InsertByLength(item, Tail(sorted))

RECURSIVE SortByLength(_)
\* bonds.py:117  summaries.sort(key=lambda item: item.length), a stable sort.
SortByLength(items) ==
    IF items = << >> THEN << >>
    ELSE InsertByLength(items[Len(items)], SortByLength(SubSeq(items, 1, Len(items) - 1)))

\* bonds.py:116  one BondSummary per item of the dict, in the dict's order
Summaries(data) ==
    [k \in 1..Len(data) |-> [bond_type |-> data[k].key.bond_type,
                             length |-> data[k].key.length,
                             count |-> data[k].count]]

\* Faulty variant: the summaries are left in insertion order.
dict_to_summaries_unsorted(data) == Summaries(data)

\* bonds.py:115-118
dict_to_summaries(data) == SortByLength(Summaries(data))

(***************************************************************************)
(* The structures _collect_bonds is run on.                                *)
(***************************************************************************)
\* The nominal bond, 2 angstrom.
BondLength == 2 * Angstrom
\* Coordinates along the vacuum axis: a chain whose links are BondLength + 2
\* units, then BondLength + Tolerance (or one unit more).
VacuumCoords == {0, BondLength + 2, 2 * BondLength + 2 + Tolerance,
                 2 * BondLength + 3 + Tolerance}

\* The point with coordinate z on the vacuum axis and p on the first in-plane
\* axis (0 on the second).
Position(axis, p, z) ==
    LET first == IF axis = 0 THEN 2 ELSE 1
    IN  [a \in 1..3 |-> IF a = axis + 1 THEN z ELSE IF a = first THEN p ELSE 0]

\* A chain of sites along the vacuum axis, and two sites beside its first two.
ChainSites(axis) == {Position(axis, 0, z) : z \in VacuumCoords}
SideSites(axis) == {Position(axis, BondLength + 2, z) : z \in {0, BondLength + 2}}
BondSites(axis) == ChainSites(axis) \cup SideSites(axis)
\* The sites drawn in a narrow cell, where every site has periodic images
\* within reach.
NarrowSites(axis) ==
    {Position(axis, 0, 0), Position(axis, 0, BondLength + 2),
     Position(axis, BondLength + 2, 0)}

\* Sequences of n distinct members of S.
Distinct(S, n) == {q \in [1..n -> S] : \A i, j \in 1..n : i # j => q[i] # q[j]}

\* test_analysis_bonds.py:31  a 20 angstrom edge
WideEdge == 20 * Angstrom
\* An edge of 2.5 angstrom, shorter than max_distance.
NarrowEdge == (5 * Angstrom) \div 2
WideLattice == <<WideEdge, WideEdge, WideEdge>>
NarrowLattice(axis) ==
    [a \in 1..3 |-> IF a = (IF axis = 0 THEN 2 ELSE 1) THEN NarrowEdge ELSE WideEdge]

BondStructures(axis) ==
    {[lattice |-> WideLattice, sites |-> q] :
        q \in UNION {Distinct(BondSites(axis), n) : n \in 0..MaxBondSites}}
    \cup
    {[lattice |-> NarrowLattice(axis), sites |-> q] :
        q \in UNION {Distinct(NarrowSites(axis), n) : n \in 0..MaxNarrowSites}}

InitBonds ==
    /\ bond_vacuum_direction \in 0..2
    /\ bond_structure \in BondStructures(bond_vacuum_direction)
    /\ max_distance = DefaultMaxDistance
    /\ site_index = 1
    /\ visited = {}
    /\ in_plane = << >>
    /\ interlayer = << >>
    /\ processed_bonds = {}
    /\ counted = << >>
    /\ scaling_matrix = << >>
    /\ supercell_lattice = << >>
    /\ summaries = << >>
    /\ bpc = "collect"
    /\ ElfIdle
    /\ LayerIdle
    /\ GeometryIdle
    /\ DirectoryIdle
    /\ GenerateIdle
    /\ PrepareIdle
    /\ StructureIdle
    /\ CliIdle

\* The site of the current pass of the outer loop, and its neighbours not yet
\* iterated.
CurrentSite == bond_structure.sites[site_index]
Unvisited == get_neighbors(bond_structure, CurrentSite, max_distance) \ visited

\* bonds.py:93-97  a neighbour outside the cell is passed over
SkipOutside ==
    /\ bpc = "collect"
    /\ site_index <= Len(bond_structure.sites)
    /\ \E neighbor \in Unvisited :
          /\ OutsideCell(neighbor, bond_structure.lattice)
          /\ visited' = visited \cup {neighbor}
    /\ UNCHANGED <<bond_structure, max_distance, bond_vacuum_direction,
                   site_index, in_plane, interlayer, processed_bonds, counted,
                   scaling_matrix, supercell_lattice, summaries, bpc, restBonds>>

\* bonds.py:93-101  a bond already processed is passed over
SkipProcessed ==
    /\ bpc = "collect"
    /\ site_index <= Len(bond_structure.sites)
    /\ \E neighbor \in Unvisited :
          /\ ~OutsideCell(neighbor, bond_structure.lattice)
          /\ bond_id(CurrentSite, neighbor) \in processed_bonds
          /\ visited' = visited \cup {neighbor}
    /\ UNCHANGED <<bond_structure, max_distance, bond_vacuum_direction,
                   site_index, in_plane, interlayer, processed_bonds, counted,
                   scaling_matrix, supercell_lattice, summaries, bpc, restBonds>>

\* bonds.py:93-110  a new bond is classified and counted
CountBond ==
    /\ bpc = "collect"
    /\ site_index <= Len(bond_structure.sites)
    /\ \E neighbor \in Unvisited :
          LET vector == [a \in 1..3 |-> CurrentSite[a] - neighbor[a]]
              bond_type == BondType(vector, bond_vacuum_direction)
              bucket == IF bond_type = "interlayer" THEN interlayer ELSE in_plane
              bond_length == Norm(vector)
              key == resolve_bond_key(bucket, bond_type, bond_length, Tolerance)
          IN  /\ ~OutsideCell(neighbor, bond_structure.lattice)
              /\ bond_id(CurrentSite, neighbor) \notin processed_bonds
              /\ processed_bonds' = processed_bonds \cup {bond_id(CurrentSite, neighbor)}
              /\ IF bond_type = "interlayer"
                 THEN /\ interlayer' = BucketIncrement(interlayer, key)
                      /\ in_plane' = in_plane
                 ELSE /\ in_plane' = BucketIncrement(in_plane, key)
                      /\ interlayer' = interlayer
              /\ counted' = Append(counted, [site |-> CurrentSite,
                                             neighbor |-> neighbor,
                                             vector |-> vector,
                                             bond_type |-> bond_type,
                                             bond_length |-> bond_length,
                                             key |-> key])
              /\ visited' = visited \cup {neighbor}
    /\ UNCHANGED <<bond_structure, max_distance, bond_vacuum_direction,
                   site_index, scaling_matrix, supercell_lattice, summaries,
                   bpc, restBonds>>

\* bonds.py:92-93  the neighbours of the site are exhausted: the next site
NextSite ==
    /\ bpc = "collect"
    /\ site_index <= Len(bond_structure.sites)
    /\ Unvisited = {}
    /\ site_index' = site_index + 1
    /\ visited' = {}
    /\ UNCHANGED <<bond_structure, max_distance, bond_vacuum_direction,
                   in_plane, interlayer, processed_bonds, counted,
                   scaling_matrix, supercell_lattice, summaries, bpc, restBonds>>

\* bonds.py:112  the sites are exhausted: _collect_bonds returns
ReturnBonds ==
    /\ bpc = "collect"
    /\ site_index > Len(bond_structure.sites)
    /\ bpc' = "supercell"
    /\ UNCHANGED <<bond_structure, max_distance, bond_vacuum_direction,
                   site_index, visited, in_plane, interlayer, processed_bonds,
                   counted, scaling_matrix, supercell_lattice, summaries,
                   restBonds>>

\* bonds.py:74-80, called at bonds.py:54
BuildSupercell ==
    /\ bpc = "supercell"
    /\ scaling_matrix' = ScalingMatrix(bond_vacuum_direction)
    /\ supercell_lattice' = SupercellLattice(ScalingMatrix(bond_vacuum_direction),
                                             bond_structure.lattice)
    /\ bpc' = "summaries"
    /\ UNCHANGED <<bond_structure, max_distance, bond_vacuum_direction,
                   site_index, visited, in_plane, interlayer, processed_bonds,
                   counted, summaries, restBonds>>

\* bonds.py:59-60 with bonds.py:115-118
DictToSummaries ==
    /\ bpc = "summaries"
    /\ summaries' = <<dict_to_summaries(in_plane), dict_to_summaries(interlayer)>>
    /\ bpc' = "done"
    /\ UNCHANGED <<bond_structure, max_distance, bond_vacuum_direction,
                   site_index, visited, in_plane, interlayer, processed_bonds,
                   counted, scaling_matrix, supercell_lattice, restBonds>>

NextBonds ==
    \/ SkipOutside
    \/ SkipProcessed
    \/ CountBond
    \/ NextSite
    \/ ReturnBonds
    \/ BuildSupercell
    \/ DictToSummaries

SpecBonds == InitBonds /\ [][NextBonds]_vars

(***************************************************************************)
(* Properties of _collect_bonds, _resolve_bond_key, _dict_to_summaries and *)
(* _build_supercell.                                                       *)
(***************************************************************************)
\* The bucket a bond of the given type is counted in.
BucketOf(bond_type) == IF bond_type = "interlayer" THEN interlayer ELSE in_plane

\* The step of _collect_bonds that counts a bond: what it does to the bucket of
\* the bond's type.  `before` and `after` are that bucket around the step and
\* `bond` is the history record of the bond.
MergesOrCreates(before, after, bond) ==
    LET close == {k \in 1..Len(before) :
                     /\ before[k].key.bond_type = bond.bond_type
                     /\ Abs(before[k].key.length - bond.bond_length) <= Tolerance}
    IN  IF close # {}
        THEN LET first == CHOOSE k \in close : \A m \in close : k <= m
             IN  /\ bond.key = before[first].key
                 /\ Len(after) = Len(before)
                 /\ \A k \in 1..Len(before) :
                       /\ after[k].key = before[k].key
                       /\ after[k].count = before[k].count + (IF k = first THEN 1 ELSE 0)
        ELSE /\ Len(after) = Len(before) + 1
             /\ SubSeq(after, 1, Len(before)) = before
             /\ after[Len(after)].count = 1
             /\ after[Len(after)].key = bond.key
             /\ bond.key.bond_type = bond.bond_type
             \* the length rounded to 3 decimals: the nearest multiple of 0.001
             /\ bond.key.length % UnitsPerMilli = 0
             /\ 2 * Abs(bond.key.length - bond.bond_length) <= UnitsPerMilli

\* C11: every step that counts a bond either finds an existing key of the
\* bond's type within the tolerance 0.008 of its length, and then adds 1 to the
\* count of the first such key in insertion order and leaves the number of
\* buckets unchanged, or finds none and then appends exactly one bucket keyed
\* (type, length rounded to 3 decimals) with count 1; the bucket of the other
\* type is untouched.
C11_MergeOrCreateBucket ==
    [][ Len(counted') = Len(counted) + 1 =>
        LET bond == counted'[Len(counted')]
        IN  /\ MergesOrCreates(BucketOf(bond.bond_type),
                               IF bond.bond_type = "interlayer" THEN interlayer'
                               ELSE in_plane',
                               bond)
            /\ bond.bond_type = "interlayer" => in_plane' = in_plane
            /\ bond.bond_type = "in-plane" => interlayer' = interlayer ]_vars

\* A bucket was created by one bond, and a later bond whose length is exactly
\* the tolerance away from the bucket's representative was merged into it.
C11_Witness ==
    \E i, j \in 1..Len(counted) :
        /\ i < j
        /\ counted[i].key = counted[j].key
        /\ Abs(counted[j].bond_length - counted[j].key.length) = Tolerance
        /\ BucketOf(counted[j].bond_type) =
               <<[key |-> counted[j].key, count |-> 2]>>

\* The number of bonds counted under a key.
CountedUnder(key) == Cardinality({k \in 1..Len(counted) : counted[k].key = key})

\* A sequence of summaries is ascending by length.
Ascending(items) ==
    \A k \in 1..(Len(items) - 1) : items[k].length <= items[k + 1].length

\* A sequence of summaries holds exactly the items of a bucket.
SummariesOf(items, bucket) ==
    /\ Len(items) = Len(bucket)
    /\ \A k \in 1..Len(bucket) :
          \E m \in 1..Len(items) :
              items[m] = [bond_type |-> bucket[k].key.bond_type,
                          length |-> bucket[k].key.length,
                          count |-> bucket[k].count]

\* C12: at every point of _collect_bonds, every bond counted into a bucket has
\* a length within the tolerance 0.008 of the bucket's representative length,
\* and each bucket's count is the number of bonds counted into it; the
\* summaries _dict_to_summaries returns are the buckets, ascending by length.
C12_WithinToleranceAndSorted ==
    /\ \A k \in 1..Len(counted) :
          /\ Abs(counted[k].key.length - counted[k].bond_length) <= Tolerance
          /\ \E m \in 1..Len(BucketOf(counted[k].bond_type)) :
                /\ BucketOf(counted[k].bond_type)[m].key = counted[k].key
                /\ BucketOf(counted[k].bond_type)[m].count = CountedUnder(counted[k].key)
    /\ summaries # << >> =>
          /\ Ascending(summaries[1])
          /\ Ascending(summaries[2])
          /\ SummariesOf(summaries[1], in_plane)
          /\ SummariesOf(summaries[2], interlayer)

\* Summaries were returned for a bucket filled out of ascending order, one of
\* whose buckets holds bonds of two different lengths.
C12_Witness ==
    /\ summaries # << >>
    /\ \E bucket \in {in_plane, interlayer} :
          \E k \in 1..(Len(bucket) - 1) : bucket[k].key.length > bucket[k + 1].key.length
    /\ \E i, j \in 1..Len(counted) :
          /\ counted[i].key = counted[j].key
          /\ counted[i].bond_length # counted[j].bond_length

\* Sites i and j of the structure are within max_distance of each other.
WithinCutoff(i, j) ==
    LET vector == [a \in 1..3 |-> bond_structure.sites[i][a] - bond_structure.sites[j][a]]
    IN  /\ \A a \in 1..3 : Abs(vector[a]) <= max_distance
        /\ NormSq(vector) <= max_distance * max_distance

\* The number of times the bond between sites i and j was counted.
Contributions(i, j) ==
    Cardinality({k \in 1..Len(counted) :
                    {counted[k].site, counted[k].neighbor}
                        = {bond_structure.sites[i], bond_structure.sites[j]}})

\* The sum of the counts of a bucket.
TotalCount(bucket) ==
    LET count == [k \in 1..Len(bucket) |-> bucket[k].count]
    IN  SumRange(count, 1, Len(bucket))

\* C13: the bond between two sites of the cell is never counted twice, and once
\* _collect_bonds has returned, every pair of distinct sites within the cutoff
\* has contributed exactly 1 to the bucket counts (and every other pair 0),
\* although each pair is met from both of its ends.
C13_EachBondCountedOnce ==
    /\ TotalCount(in_plane) + TotalCount(interlayer) = Len(counted)
    /\ \A i, j \in 1..Len(bond_structure.sites) :
          i < j =>
              /\ Contributions(i, j) <= 1
              /\ bpc # "collect" =>
                    Contributions(i, j) = (IF WithinCutoff(i, j) THEN 1 ELSE 0)

\* The loop is at a site B whose neighbour A has just been iterated, and the
\* bond was counted earlier from A's side.
C13_Witness ==
    /\ bpc = "collect"
    /\ site_index <= Len(bond_structure.sites)
    /\ \E k \in 1..Len(counted) :
          /\ counted[k].neighbor = CurrentSite
          /\ counted[k].site \in visited
          /\ TotalCount(BucketOf(counted[k].bond_type)) = 1

\* The absolute component of a displacement along a 0-based axis.
Component(vector, axis) == Abs(vector[axis + 1])

\* C14: a counted bond whose displacement is strictly largest along the vacuum
\* axis is interlayer, one whose displacement is strictly larger along another
\* axis is in-plane, and in every case an interlayer bond has no component
\* larger than the vacuum one and an in-plane bond has a component at least as
\* large as the vacuum one; each bond is counted in the bucket of its type
\* only, and every key of a bucket carries the bucket's type.  So a pair of
\* sites that differ along the vacuum axis only gives an interlayer bond.
C14_ClassifiedByLargestComponent ==
    /\ \A k \in 1..Len(counted) :
          LET bond == counted[k]
              v == bond_vacuum_direction
          IN  /\ bond.bond_type \in {"interlayer", "in-plane"}
              /\ (\A a \in (0..2) \ {v} : Component(bond.vector, a) < Component(bond.vector, v))
                    => bond.bond_type = "interlayer"
              /\ (\E a \in (0..2) \ {v} : Component(bond.vector, a) > Component(bond.vector, v))
                    => bond.bond_type = "in-plane"
              /\ bond.bond_type = "interlayer"
                    => \A a \in 0..2 : Component(bond.vector, a) <= Component(bond.vector, v)
              /\ bond.bond_type = "in-plane"
                    => \E a \in (0..2) \ {v} : Component(bond.vector, a) >= Component(bond.vector, v)
              /\ bond.key.bond_type = bond.bond_type
              /\ (\A a \in (0..2) \ {v} : bond.site[a + 1] = bond.neighbor[a + 1])
                    => bond.bond_type = "interlayer"
    /\ \A k \in 1..Len(in_plane) :
          /\ in_plane[k].key.bond_type = "in-plane"
          /\ in_plane[k].count = CountedUnder(in_plane[k].key)
    /\ \A k \in 1..Len(interlayer) :
          /\ interlayer[k].key.bond_type = "interlayer"
          /\ interlayer[k].count = CountedUnder(interlayer[k].key)
    /\ bpc # "collect" =>
          \A i, j \in 1..Len(bond_structure.sites) :
              (/\ i < j
               /\ WithinCutoff(i, j)
               /\ \A a \in (1..3) \ {bond_vacuum_direction + 1} :
                     bond_structure.sites[i][a] = bond_structure.sites[j][a])
              => /\ TotalCount(interlayer) >= 1
                 /\ \A k \in 1..Len(counted) :
                       {counted[k].site, counted[k].neighbor}
                           = {bond_structure.sites[i], bond_structure.sites[j]}
                       => counted[k].bond_type = "interlayer"

\* Two sites that differ along the vacuum axis only were collected, next to a
\* bond with equal components along the vacuum axis and an in-plane axis.
C14_Witness ==
    /\ bpc = "done"
    /\ \E k \in 1..Len(counted) :
          /\ \A a \in (0..2) \ {bond_vacuum_direction} : Component(counted[k].vector, a) = 0
          /\ counted[k].vector[bond_vacuum_direction + 1] < 0
          /\ counted[k].bond_type = "interlayer"
    /\ \E k \in 1..Len(counted) :
          \E a \in (0..2) \ {bond_vacuum_direction} :
              /\ Component(counted[k].vector, a) > 0
              /\ Component(counted[k].vector, a)
                     = Component(counted[k].vector, bond_vacuum_direction)

\* The scaling matrix of a 3x3x1 expansion: diagonal, 3 on the in-plane axes
\* and 1 on the vacuum axis.
DiagonalScalingMatrix(axis) ==
    [i \in 1..3 |-> [j \in 1..3 |->
        IF i # j THEN 0 ELSE IF i = axis + 1 THEN 1 ELSE 3]]

\* C15: the scaling matrix _build_supercell builds is diagonal, 3 on the two
\* in-plane axes and 1 on the vacuum axis, and the vacuum lattice vector of the
\* supercell is the one of the structure.
C15_ScalingMatrixIsDiagonal ==
    scaling_matrix # << >> =>
        /\ scaling_matrix = DiagonalScalingMatrix(bond_vacuum_direction)
        /\ supercell_lattice[bond_vacuum_direction + 1]
               = LatticeRows(bond_structure.lattice)[bond_vacuum_direction + 1]

(***************************************************************************)
(* _index_to_frac and _fractional_distance as functions of their           *)
(* arguments (src/layer_toolkit/analysis/elf.py).                          *)
(*                                                                         *)
(* Numbers.  The result of _index_to_frac is held as numerators over       *)
(* FracDen(grid_dimensions); the arguments of _fractional_distance are     *)
(* numerators over DistDen and its result is the square of the distance, a *)
(* numerator over DistDen^2.                                               *)
(***************************************************************************)
\* An axis of the grid has at most MaxAxis points.
MaxAxis == 5
\* Coordinates within MaxEdge hundredths of the cell boundary are drawn.
MaxEdge == 2
\* test_elf_hotspots.py:7-8  coordinates are given in hundredths
DistDen == 100

GridShapes == [1..3 -> 1..MaxAxis]
GridIndices(dims) == {i \in [1..3 -> 0..(MaxAxis - 1)] : \A a \in 1..3 : i[a] < dims[a]}

\* Coordinates in [0, 1]: near 0, near 1 and the middle.
EdgeCoords == (0..MaxEdge) \cup ((DistDen - MaxEdge)..DistDen) \cup {DistDen \div 2}
DistPoints ==
    {c \in [1..3 -> EdgeCoords] : c[3] \in {0, DistDen \div 2}}

InitGeometry ==
    /\ \/ /\ geo_call = "index_to_frac"
          /\ geo_dims \in GridShapes
          /\ geo_index \in GridIndices(geo_dims)
          /\ geo_a = <<0, 0, 0>>
          /\ geo_b = <<0, 0, 0>>
       \/ /\ geo_call = "fractional_distance"
          /\ geo_dims = <<0, 0, 0>>
          /\ geo_index = <<0, 0, 0>>
          /\ geo_a \in DistPoints
          /\ geo_b \in DistPoints
    /\ geo_frac = << >>
    /\ geo_dist = << >>
    /\ geo_dist_rev = << >>
    /\ ElfIdle
    /\ LayerIdle
    /\ BondIdle
    /\ DirectoryIdle
    /\ GenerateIdle
    /\ PrepareIdle
    /\ StructureIdle
    /\ CliIdle

\* elf.py:165-170
IndexToFrac ==
    /\ geo_call = "index_to_frac"
    /\ geo_frac = << >>
    /\ geo_frac' = << index_to_frac(geo_index, geo_dims) >>
    /\ UNCHANGED <<geo_call, geo_dims, geo_index, geo_a, geo_b, geo_dist,
                   geo_dist_rev, restGeometry>>

\* elf.py:256-259  _fractional_distance(a, b)
FractionalDistance ==
    /\ geo_call = "fractional_distance"
    /\ geo_dist = << >>
    /\ geo_dist' = << fractional_distance_sq(geo_a, geo_b, DistDen) >>
    /\ UNCHANGED <<geo_call, geo_dims, geo_index, geo_a, geo_b, geo_frac,
                   geo_dist_rev, restGeometry>>

\* elf.py:256-259  _fractional_distance(b, a)
FractionalDistanceReversed ==
    /\ geo_call = "fractional_distance"
    /\ geo_dist_rev = << >>
    /\ geo_dist_rev' = << fractional_distance_sq(geo_b, geo_a, DistDen) >>
    /\ UNCHANGED <<geo_call, geo_dims, geo_index, geo_a, geo_b, geo_frac,
                   geo_dist, restGeometry>>

NextGeometry ==
    \/ IndexToFrac
    \/ FractionalDistance
    \/ FractionalDistanceReversed

SpecGeometry == InitGeometry /\ [][NextGeometry]_vars

(***************************************************************************)
(* Properties of _index_to_frac and _fractional_distance.                  *)
(***************************************************************************)
\* C16: _index_to_frac never divides by zero, since the divisor of every axis
\* is at least 1; on an axis of size 1 the result is the constant 0.0, and on
\* an axis of size d > 1 index v gives v/(d-1), so 0 gives 0.0 and d-1 gives
\* 1.0.
C16_IndexToFracDefined ==
    geo_call = "index_to_frac" =>
        /\ \A a \in 1..3 : Denominator(geo_dims[a]) >= 1
        /\ geo_frac # << >> =>
              \A a \in 1..3 :
                  /\ geo_dims[a] = 1 => geo_frac[1][a] = 0
                  /\ geo_dims[a] > 1 =>
                        /\ geo_frac[1][a] * (geo_dims[a] - 1)
                               = geo_index[a] * FracDen(geo_dims)
                        /\ geo_index[a] = 0 => geo_frac[1][a] = 0
                        /\ geo_index[a] = geo_dims[a] - 1
                               => geo_frac[1][a] = FracDen(geo_dims)

\* The call of the test: index (0, 3, 1) on a grid of dimensions (1, 5, 2).
C16_Witness ==
    /\ geo_dims = <<1, 5, 2>>
    /\ geo_index = <<0, 3, 1>>
    /\ geo_frac = << <<0, 3, 4>> >>

\* The contribution of one axis to the periodic distance of a and b.
Wrapped(a, b, k) ==
    IF Abs(a[k] - b[k]) <= DistDen - Abs(a[k] - b[k])
    THEN Abs(a[k] - b[k]) ELSE DistDen - Abs(a[k] - b[k])

\* C17: _fractional_distance(a, b) equals _fractional_distance(b, a); for
\* coordinates in [0, 1] its square is the sum over the axes of the squares of
\* min(|a_i - b_i|, 1 - |a_i - b_i|), each of which is at most 0.5; and
\* (0.98, 0.02, 0.50) and (0.01, 0.98, 0.50) are at squared distance
\* 0.03^2 + 0.04^2.
C17_SymmetricAndWrapped ==
    /\ geo_dist # << >> =>
          /\ geo_dist[1] = Wrapped(geo_a, geo_b, 1) * Wrapped(geo_a, geo_b, 1)
                           + Wrapped(geo_a, geo_b, 2) * Wrapped(geo_a, geo_b, 2)
                           + Wrapped(geo_a, geo_b, 3) * Wrapped(geo_a, geo_b, 3)
          /\ \A k \in 1..3 : 2 * Wrapped(geo_a, geo_b, k) <= DistDen
          /\ 4 * geo_dist[1] <= 3 * DistDen * DistDen
          /\ (geo_a = <<98, 2, 50>> /\ geo_b = <<1, 98, 50>>)
                => geo_dist[1] = 3 * 3 + 4 * 4
    /\ (geo_dist # << >> /\ geo_dist_rev # << >>) => geo_dist = geo_dist_rev

\* The pair of the test was measured in both directions.
C17_Witness ==
    /\ geo_a = <<98, 2, 50>>
    /\ geo_b = <<1, 98, 50>>
    /\ geo_dist = <<25>>
    /\ geo_dist_rev = <<25>>

(***************************************************************************)
(* analyze_directory (src/layer_toolkit/analysis/elf.py).                  *)
(*                                                                         *)
(* A file name is held as the sequence of the code points of what follows  *)
(* the prefix; a label is a sequence of code points too.  The analysis of  *)
(* one file either returns or raises.                                      *)
(***************************************************************************)
\* The directory holds at most MaxFiles matching files.
MaxFiles == 3

\* The names after the prefix: "2", "10", "02", "-1", "1_0", "-a", "alpha",
\* "bulk", "BULK", "2.bak" and "".
Stems ==
    { <<50>>, <<49, 48>>, <<48, 50>>, <<45, 49>>, <<49, 95, 48>>, <<45, 97>>,
      <<97, 108, 112, 104, 97>>, <<98, 117, 108, 107>>, <<66, 85, 76, 75>>,
      <<50, 46, 98, 97, 107>>, << >> }

\* str.lower() on ASCII letters.
Lower(text) ==
    [k \in 1..Len(text) |-> IF text[k] >= 65 /\ text[k] <= 90 THEN text[k] + 32
                            ELSE text[k]]

\* stem.split(".")[0]: what precedes the first "."
BeforeDot(text) ==
    LET dots == {k \in 1..Len(text) : text[k] = 46}
    IN  IF dots = {} THEN text
        ELSE SubSeq(text, 1, (CHOOSE k \in dots : \A m \in dots : k <= m) - 1)

\* elf.py:142-146
label_for_path(stem) ==
    IF Lower(stem) = <<98, 117, 108, 107>> THEN <<98, 117, 108, 107>>
    ELSE BeforeDot(stem)

IsDigit(c) == c >= 48 /\ c <= 57

\* The text without a leading "+" or "-".
Unsigned(text) ==
    IF Len(text) >= 1 /\ text[1] \in {43, 45} THEN Tail(text) ELSE text

\* int(label) does not raise ValueError: an optional sign, then digits, with
\* single underscores allowed between digits.
ParsesAsInt(label) ==
    LET digits == Unsigned(label)
    IN  /\ Len(digits) >= 1
        /\ IsDigit(digits[1])
        /\ IsDigit(digits[Len(digits)])
        /\ \A k \in 1..Len(digits) : IsDigit(digits[k]) \/ digits[k] = 95
        /\ \A k \in 1..(Len(digits) - 1) : ~(digits[k] = 95 /\ digits[k + 1] = 95)

RECURSIVE DigitsValue(_)
DigitsValue(digits) ==
    IF digits = << >> THEN 0
    ELSE DigitsValue(SubSeq(digits, 1, Len(digits) - 1)) * 10 + (digits[Len(digits)] - 48)

\* int(label), for a label that parses.
IntValue(label) ==
    LET magnitude == DigitsValue(SelectSeq(Unsigned(label), IsDigit))
    IN  IF Len(label) >= 1 /\ label[1] = 45 THEN 0 - magnitude ELSE magnitude

RECURSIVE TextLessEq(_, _)
\* Python's order of two strings: by code point, a prefix first.
TextLessEq(x, y) ==
    IF x = << >> THEN TRUE
    ELSE IF y = << >> THEN FALSE
    ELSE IF Head(x) # Head(y) THEN Head(x) < Head(y)
    ELSE TextLessEq(Tail(x), Tail(y))

\* Faulty variant: every label is sorted as text.
sort_key_text(pair) == <<1, pair.label>>

\* elf.py:122-127  _sort_key
sort_key(pair) ==
    IF ParsesAsInt(pair.label) THEN <<0, IntValue(pair.label)>>
    ELSE <<1, pair.label>>

\* Python's order of two keys: key x is strictly below key y.
KeyLess(x, y) ==
    \/ x[1] < y[1]
    \/ /\ x[1] = y[1]
       /\ IF x[1] = 0 THEN x[2] < y[2]
          ELSE x[2] # y[2] /\ TextLessEq(x[2], y[2])

RECURSIVE InsertByKey(_, _)
InsertByKey(pair, sorted) ==
    IF sorted = << >> THEN <<pair>>
    ELSE IF KeyLess(sort_key(pair), sort_key(Head(sorted))) THEN <<pair>> \o sorted
    ELSE <<Head(sorted)>> \o InsertByKey(pair, Tail(sorted))

RECURSIVE SortedByKey(_)
\* elf.py:130  sorted(labelled, key=_sort_key), a stable sort.
SortedByKey(pairs) ==
    IF pairs = << >> THEN << >>
    ELSE InsertByKey(pairs[Len(pairs)], SortedByKey(SubSeq(pairs, 1, Len(pairs) - 1)))

InitDirectory ==
    /\ candidates \in UNION {Distinct(Stems, n) : n \in 0..MaxFiles}
    /\ labelled = << >>
    /\ queue = << >>
    /\ analysed = << >>
    /\ results = << >>
    /\ dir_raised = ""
    /\ dpc = "list"
    /\ ElfIdle
    /\ LayerIdle
    /\ BondIdle
    /\ GeometryIdle
    /\ GenerateIdle
    /\ PrepareIdle
    /\ StructureIdle
    /\ CliIdle

\* elf.py:119-130  the files are listed, labelled and sorted
ListAndSort ==
    /\ dpc = "list"
    /\ labelled' = [k \in 1..Len(candidates) |->
                       [label |-> label_for_path(candidates[k]), path |-> candidates[k]]]
    /\ queue' = SortedByKey(labelled')
    /\ dpc' = "loop"
    /\ UNCHANGED <<candidates, analysed, results, dir_raised, restDirectory>>

\* elf.py:130-138  one pass of the loop whose analysis returns
AnalyseNext ==
    /\ dpc = "loop"
    /\ queue # << >>
    /\ analysed' = Append(analysed, Head(queue).path)
    /\ results' = Append(results, Head(queue))
    /\ queue' = Tail(queue)
    /\ UNCHANGED <<candidates, labelled, dir_raised, dpc, restDirectory>>

\* elf.py:130-135  one pass of the loop whose analysis raises
AnalyseFails ==
    /\ dpc = "loop"
    /\ queue # << >>
    /\ analysed' = Append(analysed, Head(queue).path)
    /\ dir_raised' = "error"
    /\ dpc' = "done"
    /\ UNCHANGED <<candidates, labelled, queue, results, restDirectory>>

\* elf.py:139
ReturnResults ==
    /\ dpc = "loop"
    /\ queue = << >>
    /\ dpc' = "done"
    /\ UNCHANGED <<candidates, labelled, queue, analysed, results, dir_raised,
                   restDirectory>>

NextDirectory ==
    \/ ListAndSort
    \/ AnalyseNext
    \/ AnalyseFails
    \/ ReturnResults

SpecDirectory == InitDirectory /\ [][NextDirectory]_vars

(***************************************************************************)
(* Properties of analyze_directory.                                        *)
(***************************************************************************)
\* Two labels are in the order the results must have.
InLabelOrder(x, y) ==
    IF ParsesAsInt(x)
    THEN ParsesAsInt(y) => IntValue(x) <= IntValue(y)
    ELSE ~ParsesAsInt(y) /\ TextLessEq(x, y)

\* C18: the results analyze_directory has built, and so the list it returns,
\* have every label that parses as an integer before every label that does
\* not, the integer labels in numeric order and the other labels in
\* lexicographic order; the files were analysed in that same order, and the
\* list returned has one result per matching file.
C18_NumericThenText ==
    /\ \A i, j \in 1..Len(results) :
          i < j => InLabelOrder(results[i].label, results[j].label)
    /\ \A k \in 1..Len(results) :
          /\ analysed[k] = results[k].path
          /\ results[k].label = label_for_path(results[k].path)
    /\ Len(analysed) <= Len(results) + 1
    /\ (dpc = "done" /\ dir_raised = "") =>
          /\ Len(results) = Len(candidates)
          /\ \A k \in 1..Len(candidates) :
                \E m \in 1..Len(results) : results[m].path = candidates[k]

\* The list returned has "2" before "10" before a label that is not a number
\* and sorts before both as text, out of a listing in another order.
C18_Witness ==
    /\ dpc = "done"
    /\ dir_raised = ""
    /\ Len(results) = 3
    /\ results[1].label = <<50>>
    /\ results[2].label = <<49, 48>>
    /\ results[3].label = <<45, 97>>
    /\ candidates[1] = <<45, 97>>

(***************************************************************************)
(* LayerGenerator.run (src/layer_toolkit/generation/layers.py).            *)
(*                                                                         *)
(* A structure type is held as the sequence of its code points.  The path  *)
(* base_directory / str(layer_count) is held as the layer count.  A call   *)
(* of _prepare_layer either returns the path or raises.                    *)
(***************************************************************************)
\* request.layer_counts has at most MaxCounts entries, each -1..MaxLayerCount.
MaxCounts == 4
MaxLayerCount == 3

\* layers.py:22  the keys of _STRUCTURE_SPACEGROUPS: "BCC" and "HCP"
STRUCTURE_SPACEGROUPS == { <<66, 67, 67>>, <<72, 67, 80>> }

\* The structure types requested: "bcc", "BCC", "Hcp", "HCP", "fcc" and "".
StructureTypes ==
    { <<98, 99, 99>>, <<66, 67, 67>>, <<72, 99, 112>>, <<72, 67, 80>>,
      <<102, 99, 99>>, << >> }

\* str.upper() on ASCII letters.
Upper(text) ==
    [k \in 1..Len(text) |-> IF text[k] >= 97 /\ text[k] <= 122 THEN text[k] - 32
                            ELSE text[k]]

\* layers.py:53-54
Supported(text) == Upper(text) \in STRUCTURE_SPACEGROUPS

\* Faulty variant: the counts are walked in the order of the request.
unsorted_layer_counts(counts) == counts

\* layers.py:58  sorted(request.layer_counts)
sorted_layer_counts(counts) == Sorted(counts)

\* Faulty variant: a repeated count is not recognised.
NeverSeen(layer_count, known) == FALSE

\* layers.py:61  layer_count in seen
AlreadySeen(layer_count, known) == layer_count \in known

LayerCountLists ==
    UNION {[1..n -> (0 - 1)..MaxLayerCount] : n \in 0..MaxCounts}

InitGenerate ==
    /\ structure_type \in StructureTypes
    /\ layer_counts \in LayerCountLists
    /\ pending = << >>
    /\ seen = {}
    /\ created_paths = << >>
    /\ prepared = << >>
    /\ gen_raised = ""
    /\ gen_returned = << >>
    /\ gpc = "run"
    /\ ElfIdle
    /\ LayerIdle
    /\ BondIdle
    /\ GeometryIdle
    /\ DirectoryIdle
    /\ PrepareIdle
    /\ StructureIdle
    /\ CliIdle

\* layers.py:52-58  the structure type is checked and the counts are sorted
EnterRun ==
    /\ gpc = "run"
    /\ IF Supported(structure_type)
       THEN /\ pending' = sorted_layer_counts(layer_counts)
            /\ gpc' = "loop"
            /\ gen_raised' = gen_raised
       ELSE /\ pending' = pending
            /\ gpc' = "done"
            /\ gen_raised' = "ValueError"
    /\ UNCHANGED <<structure_type, layer_counts, seen, created_paths, prepared,
                   gen_returned, restGenerate>>

\* layers.py:58-60  a count below 1 ends the run
RejectLayerCount ==
    /\ gpc = "loop"
    /\ pending # << >>
    /\ Head(pending) < 1
    /\ gen_raised' = "ValueError"
    /\ gpc' = "done"
    /\ UNCHANGED <<structure_type, layer_counts, pending, seen, created_paths,
                   prepared, gen_returned, restGenerate>>

\* layers.py:58-63  a count met before is skipped
SkipDuplicate ==
    /\ gpc = "loop"
    /\ pending # << >>
    /\ Head(pending) >= 1
    /\ AlreadySeen(Head(pending), seen)
    /\ pending' = Tail(pending)
    /\ UNCHANGED <<structure_type, layer_counts, seen, created_paths, prepared,
                   gen_raised, gen_returned, gpc, restGenerate>>

\* layers.py:58-75  a new count is prepared and its path recorded
PrepareLayer ==
    /\ gpc = "loop"
    /\ pending # << >>
    /\ Head(pending) >= 1
    /\ ~AlreadySeen(Head(pending), seen)
    /\ seen' = seen \cup {Head(pending)}
    /\ prepared' = Append(prepared, Head(pending))
    /\ created_paths' = Append(created_paths, Head(pending))
    /\ pending' = Tail(pending)
    /\ UNCHANGED <<structure_type, layer_counts, gen_raised, gen_returned, gpc,
                   restGenerate>>

\* layers.py:58-74  _prepare_layer raises and the exception leaves run
PrepareLayerFails ==
    /\ gpc = "loop"
    /\ pending # << >>
    /\ Head(pending) >= 1
    /\ ~AlreadySeen(Head(pending), seen)
    /\ seen' = seen \cup {Head(pending)}
    /\ prepared' = Append(prepared, Head(pending))
    /\ gen_raised' = "PrepareError"
    /\ gpc' = "done"
    /\ UNCHANGED <<structure_type, layer_counts, pending, created_paths,
                   gen_returned, restGenerate>>

\* layers.py:77
ReturnPaths ==
    /\ gpc = "loop"
    /\ pending = << >>
    /\ gen_returned' = << created_paths >>
    /\ gpc' = "done"
    /\ UNCHANGED <<structure_type, layer_counts, pending, seen, created_paths,
                   prepared, gen_raised, restGenerate>>

NextGenerate ==
    \/ EnterRun
    \/ RejectLayerCount
    \/ SkipDuplicate
    \/ PrepareLayer
    \/ PrepareLayerFails
    \/ ReturnPaths

SpecGenerate == InitGenerate /\ [][NextGenerate]_vars

(***************************************************************************)
(* Properties of LayerGenerator.run.                                       *)
(***************************************************************************)
\* The layer counts requested.
Requested == {layer_counts[k] : k \in 1..Len(layer_counts)}

\* C19: _prepare_layer is called on strictly ascending layer counts, so never
\* twice on the same one; when run returns, it was called exactly once for
\* each distinct requested layer count, whatever the order and repetitions of
\* the request, and the list returned holds the paths of those layer counts in
\* the same ascending order.
C19_EachCountOnceAscending ==
    /\ \A i, j \in 1..Len(prepared) : i < j => prepared[i] < prepared[j]
    /\ \A k \in 1..Len(prepared) : prepared[k] \in Requested
    /\ gen_returned # << >> =>
          /\ {prepared[k] : k \in 1..Len(prepared)} = Requested
          /\ gen_returned[1] = prepared

\* The request of the test, [3, 1, 3, 2], has returned the paths of 1, 2, 3.
C19_Witness ==
    /\ layer_counts = <<3, 1, 3, 2>>
    /\ gen_returned = << <<1, 2, 3>> >>
    /\ prepared = <<1, 2, 3>>

\* C20: when the structure type is unsupported or some requested layer count
\* is below 1, wherever it stands in the list, _prepare_layer is never called
\* and nothing is returned, and the run ends with ValueError.
C20_InvalidRequestPreparesNothing ==
    (~(Upper(structure_type) \in STRUCTURE_SPACEGROUPS)
     \/ \E k \in 1..Len(layer_counts) : layer_counts[k] < 1) =>
        /\ prepared = << >>
        /\ created_paths = << >>
        /\ gen_returned = << >>
        /\ gpc = "done" => gen_raised = "ValueError"

\* A request whose last layer count is 0, after valid ones, was rejected.
C20_Witness ==
    /\ structure_type = <<98, 99, 99>>
    /\ layer_counts = <<2, 1, 0>>
    /\ gen_raised = "ValueError"
    /\ gpc = "done"
    /\ prepared = << >>

\* ------------------------------------------------------------------
\* The widening loop of _extract_hotspots.

\* The pool is never larger than the grid.
PoolWithinGrid ==
    (extract_called /\ Size(grid_dimensions) > 0)
        => candidate_count \in 1..Size(grid_dimensions)

\* What one step does to the pool size.
PoolStep ==
    /\ (pc = "extract" /\ pc' = "while")
          => candidate_count' = Min(Size(file.dims), Max(256 * top_n, top_n))
    /\ (pc = "for" /\ pc' = "while")
          => /\ Len(hotspots) < top_n
             /\ candidate_count' > candidate_count
             /\ candidate_count' = Min(Size(file.dims), 2 * candidate_count)
    /\ (pc = "for" /\ pc' # "for" /\ Len(hotspots') < top_n
           /\ candidate_count < Size(file.dims))
          => (pc' = "while" /\ candidate_count' > candidate_count)
    /\ (pc = "for" /\ candidate_count = Size(file.dims))
          => (pc' \in {"for", "check"} /\ passes' = passes)
    /\ (pc \in {"while", "for", "check", "done"} /\ pc' # "while")
          => candidate_count' = candidate_count

\* A measure of the work left: the widenings the pool has room for, then the
\* members of the current pool the for loop has not passed.
Rank ==
    LET size == Size(file.dims)
        stride == size + 3
    IN  CASE pc = "validate" -> stride * stride + 3
          [] pc = "load"     -> stride * stride + 2
          [] pc = "extract"  -> stride * stride + 1
          [] pc = "while"    -> 2 + (size - candidate_count) * stride + size + 2
          [] pc = "for"      -> 2 + (size - candidate_count) * stride
                                  + (Cardinality(pool) - Cardinality(scanned)) + 1
          [] pc = "check"    -> 1
          [] OTHER           -> 0

\* A call that has not ended can take a step: the for loop has a next member
\* or is exhausted, the while loop has a pool to draw or its test fails.
NeverStuck ==
    CASE pc = "done"  -> TRUE
      [] pc = "for"   -> IF scanned = pool
                         THEN ENABLED ForEnd
                         ELSE Highest(elf_data, pool \ scanned) # {}
      [] pc = "while" -> (Len(hotspots) < top_n)
                            => TopSets(elf_data, grid_dimensions, candidate_count) # {}
      [] OTHER        -> ENABLED (Validate \/ LoadContext \/ ExtractEnter \/ Finish)

\* C24: the widening loop terminates: the pool starts at
\* min(size, max(256 * top_n, top_n)), grows strictly (doubling, capped at the
\* grid size) after each pass that does not reach top_n, never exceeds the
\* grid size, and the pass whose pool is the whole grid is the last one; every
\* step lowers a non-negative measure and only a finished call cannot step.
C24_WideningTerminates ==
    /\ [](PoolWithinGrid /\ NeverStuck /\ Rank >= 0)
    /\ [][PoolStep /\ Rank' < Rank]_vars

C24_Witness ==
    /\ pc = "done"
    /\ passes >= 2
    /\ candidate_count = Size(file.dims)
    /\ Len(hotspots) < top_n

\* A step of the for loop that examines a candidate and does not accept it:
\* the candidate was not examined before, and a hotspot accepted before this
\* step is closer to it than min_separation_frac.
RejectedNearEarlierHotspot ==
    (pc = "for" /\ evaluations' # evaluations /\ hotspots' = hotspots) =>
        LET j == CHOOSE i \in scanned' \ scanned : TRUE
        IN  /\ j \notin processed
            /\ j \in processed'
            /\ \E k \in 1..Len(accepted_frac) :
                  ~Separated(j, AcceptedIndex[k], file.dims, min_separation_frac)

\* A step of the for loop that passes a member examined in an earlier pass
\* examines nothing and accepts nothing.
ExaminedOnce ==
    (pc = "for" /\ scanned' # scanned) =>
        LET j == CHOOSE i \in scanned' \ scanned : TRUE
        IN  IF j \in processed
            THEN evaluations' = evaluations /\ hotspots' = hotspots
            ELSE evaluations' = evaluations + 1

\* When the call ends every examined index was examined once, and a result
\* with fewer than top_n hotspots was returned after a pool that is the whole
\* grid, with every index of the grid examined.
ShortOnlyAfterWholeGrid ==
    /\ pc \in {"check", "done"} => evaluations = Cardinality(processed)
    /\ (returned # << >> /\ Len(returned[1].hotspots) < top_n) =>
          /\ candidate_count = Size(file.dims)
          /\ pool = Indices(file.dims)
          /\ processed = Indices(file.dims)
          /\ evaluations = Size(file.dims)

\* C25: fewer than top_n hotspots are returned only after the pool covered
\* the whole grid; by then every grid index was examined exactly once (an
\* index examined in one pass is not examined again in a later pass), and
\* every point that was not accepted was, when examined, closer than
\* min_separation_frac to a hotspot accepted earlier.
C25_ShortResultAfterFullScan ==
    /\ []ShortOnlyAfterWholeGrid
    /\ [][RejectedNearEarlierHotspot /\ ExaminedOnce]_vars

C25_Witness ==
    /\ returned # << >>
    /\ Len(returned[1].hotspots) < top_n
    /\ evaluations = Size(file.dims)
    /\ evaluations > PoolFactor * top_n
    /\ passes >= 2

\* C27: on a grid with at least one point and valid arguments the extraction
\* keeps at least one hotspot (the highest-valued point is examined against an
\* empty list), so the call returns a result with a hotspot; RuntimeError is
\* raised for a grid without points only.
C27_NonEmptyGridYieldsHotspot ==
    /\ (pc \in {"check", "done"} /\ extract_called /\ Size(file.dims) > 0)
          => (Len(hotspots) >= 1 /\ raised # "RuntimeError")
    /\ (pc = "done" /\ ArgsValid(top_n, min_separation_frac) /\ Size(file.dims) > 0)
          => (returned # << >> /\ Len(returned[1].hotspots) >= 1 /\ raised = "")
    /\ raised = "RuntimeError"
          => (Size(file.dims) = 0 /\ ArgsValid(top_n, min_separation_frac))

C27_Witness ==
    /\ pc = "done"
    /\ Size(file.dims) > 0
    /\ returned # << >>
    /\ Len(returned[1].hotspots) = 1
    /\ top_n > 1
    /\ raised = ""

\* ------------------------------------------------------------------
\* The buckets of _collect_bonds as a record of what was counted.

\* What a step may do to a bucket: the items it held keep their keys and their
\* places, no count goes down, and at most one count goes up, by 1.
KeysKept(before, after) ==
    /\ Len(after) >= Len(before)
    /\ \A k \in 1..Len(before) :
          /\ after[k].key = before[k].key
          /\ after[k].count \in {before[k].count, before[k].count + 1}

RECURSIVE Clustered(_)
\* The two buckets after bonds arrive in the order of the sequence `bonds`.
Clustered(bonds) ==
    IF bonds = << >> THEN [in_plane |-> << >>, interlayer |-> << >>]
    ELSE LET earlier == Clustered(SubSeq(bonds, 1, Len(bonds) - 1))
             bond == bonds[Len(bonds)]
             bucket == IF bond.bond_type = "interlayer" THEN earlier.interlayer
                       ELSE earlier.in_plane
             key == resolve_bond_key(bucket, bond.bond_type, bond.bond_length,
                                     Tolerance)
         IN  IF bond.bond_type = "interlayer"
             THEN [earlier EXCEPT !.interlayer = BucketIncrement(bucket, key)]
             ELSE [earlier EXCEPT !.in_plane = BucketIncrement(bucket, key)]

\* The sequence in the opposite order.
Reversed(q) == [k \in 1..Len(q) |-> q[Len(q) + 1 - k]]

\* The keys of a bucket.
Keys(bucket) == {bucket[k].key : k \in 1..Len(bucket)}

\* C26: a step of _collect_bonds never changes or removes a key a bucket
\* holds: it adds 1 to a count or appends a key, so a representative length
\* stays what it was at creation, and the buckets are those that arise from
\* the bonds in their order of arrival.
C26_RepresentativeFixedAtCreation ==
    /\ [][KeysKept(in_plane, in_plane') /\ KeysKept(interlayer, interlayer')]_vars
    /\ [](Clustered(counted) = [in_plane |-> in_plane, interlayer |-> interlayer])

\* The bonds counted, had they arrived in the opposite order, would have given
\* other keys: the clustering depends on the order of arrival.
C26_Witness ==
    /\ bpc = "done"
    /\ Len(counted) >= 2
    /\ LET other == Clustered(Reversed(counted))
       IN  Keys(other.in_plane) \cup Keys(other.interlayer)
               # Keys(in_plane) \cup Keys(interlayer)

\* No representative of the bond's type in the bucket is within the tolerance
\* of the bond's length.
NoneWithin(bucket, bond) ==
    \A k \in 1..Len(bucket) :
        bucket[k].key.bond_type = bond.bond_type
            => Abs(bucket[k].key.length - bond.bond_length) > Tolerance

\* A bond that no representative is close to gets a key the bucket did not
\* hold, in a new last place, and leaves the items of the bucket as they were.
NewKeyIsFresh(before, after, bond) ==
    NoneWithin(before, bond) =>
        /\ bond.key \notin Keys(before)
        /\ Len(after) = Len(before) + 1
        /\ SubSeq(after, 1, Len(before)) = before
        /\ after[Len(after)] = [key |-> bond.key, count |-> 1]

\* The representatives of a bucket are pairwise at least the tolerance apart.
RepresentativesApart(bucket) ==
    \A i, j \in 1..Len(bucket) :
        i # j => Abs(bucket[i].key.length - bucket[j].key.length) >= Tolerance

\* C28: when no representative of a bond's type is within 0.008 of its length
\* L, the new key round(L, 3) is none of the bucket's keys, so that no count
\* is overwritten or merged; and at every point any two representatives of a
\* bucket differ by at least 0.008.
C28_NewKeyNeverCollides ==
    /\ [][ Len(counted') = Len(counted) + 1 =>
            LET bond == counted'[Len(counted')]
            IN  NewKeyIsFresh(BucketOf(bond.bond_type),
                              IF bond.bond_type = "interlayer" THEN interlayer'
                              ELSE in_plane',
                              bond) ]_vars
    /\ [](RepresentativesApart(in_plane) /\ RepresentativesApart(interlayer))

\* A bucket holds two representatives exactly the tolerance apart: the second
\* was created for a length just beyond the tolerance of the first.
C28_Witness ==
    \E bucket \in {in_plane, interlayer} :
        \E i, j \in 1..Len(bucket) :
            /\ i < j
            /\ Abs(bucket[i].key.length - bucket[j].key.length) = Tolerance
            /\ \E k \in 1..Len(counted) :
                  /\ counted[k].key = bucket[j].key
                  /\ Abs(counted[k].bond_length - bucket[i].key.length) > Tolerance

\* C29: at every point of _collect_bonds the counts of the two buckets sum to
\* the number of bond identifiers in `processed`, a step that adds an
\* identifier adds 1 to exactly one count, and every count is at least 1.
C29_CountsMatchProcessed ==
    /\ [](TotalCount(in_plane) + TotalCount(interlayer)
             = Cardinality(processed_bonds))
    /\ [](\A bucket \in {in_plane, interlayer} :
             \A k \in 1..Len(bucket) : bucket[k].count >= 1)
    /\ [][ /\ Cardinality(processed_bonds') \in
                 {Cardinality(processed_bonds), Cardinality(processed_bonds) + 1}
           /\ TotalCount(in_plane') + TotalCount(interlayer')
                 - (TotalCount(in_plane) + TotalCount(interlayer))
                 = Cardinality(processed_bonds') - Cardinality(processed_bonds)
           /\ (in_plane' = in_plane \/ interlayer' = interlayer) ]_vars

\* Three bonds were processed, two of them counted under one key.
C29_Witness ==
    /\ Cardinality(processed_bonds) = 3
    /\ \E bucket \in {in_plane, interlayer} :
          \E k \in 1..Len(bucket) : bucket[k].count = 2
    /\ Len(in_plane) + Len(interlayer) = 2

(***************************************************************************)
(* build_layer_structure and _select_preferred_doc (generation/layers.py). *)
(* An energy above hull is an integer number of hundredths of an eV; a     *)
(* material id is a sequence of code points.  A document is a record       *)
(*   [material_id, energy_above_hull, structure]                           *)
(* whose first two fields are <<>> for None or <<the value>>.  Of the      *)
(* Structure returned the model keeps the species count and the in-plane   *)
(* coordinates of the layers (in twelfths); its lattice and the layers'    *)
(* heights, which come from the prototype's floats, are not modelled.      *)
(***************************************************************************)
\* The longest list of documents drawn.
MaxDocs == 3
\* The largest energy above hull drawn, in hundredths of an eV.
MaxEnergy == 1

\* The material ids drawn: "mp-10" and "mp-2".
MaterialIds == { <<109, 112, 45, 49, 48>>, <<109, 112, 45, 50>> }

Documents(structures) ==
    [ material_id : {<< >>} \cup {<<id>> : id \in MaterialIds},
      energy_above_hull : {<< >>} \cup {<<e>> : e \in 0..MaxEnergy},
      structure : structures ]

\* Lists of at most one document, which may lack a Structure, and longer lists
\* of documents that hold one.
ShortDocLists == {<< >>} \cup {<<d>> : d \in Documents({"Structure", "None"})}
DocLists == UNION {[1..n -> Documents({"Structure"})] : n \in 2..MaxDocs}

\* Faulty variant: a missing energy counts as 0.0.
doc_sort_key_none_zero(doc) ==
    << IF doc.energy_above_hull = << >> THEN <<0, 0>>
       ELSE <<0, doc.energy_above_hull[1]>>,
       IF doc.material_id = << >> THEN << >> ELSE doc.material_id[1] >>

\* layers.py:286-293  (energy_key, material_id): an energy key is <<0, e>> for
\* the number e and <<1, 0>> for float("inf"); a missing id is "".
doc_sort_key(doc) ==
    << IF doc.energy_above_hull = << >> THEN <<1, 0>>
       ELSE <<0, doc.energy_above_hull[1]>>,
       IF doc.material_id = << >> THEN << >> ELSE doc.material_id[1] >>

\* Python's < on two such keys.
DocKeyLess(x, y) ==
    IF x[1] # y[1]
    THEN x[1][1] < y[1][1] \/ (x[1][1] = y[1][1] /\ x[1][2] < y[1][2])
    ELSE x[2] # y[2] /\ TextLessEq(x[2], y[2])

\* layers.py:283  min(docs, key=_doc_sort_key): the first of the least.
select_preferred_doc(documents) ==
    documents[CHOOSE k \in 1..Len(documents) :
                 /\ \A m \in 1..Len(documents) :
                       ~DocKeyLess(doc_sort_key(documents[m]), doc_sort_key(documents[k]))
                 /\ \A m \in 1..(k - 1) :
                       DocKeyLess(doc_sort_key(documents[k]), doc_sort_key(documents[m]))]

\* Faulty variant: a negative filter is passed on to the search.
HullNeverNegative(hull) == FALSE

\* layers.py:173  max_energy_above_hull is not None and max_energy_above_hull < 0
HullNegative(hull) == hull # << >> /\ hull[1] < 0

\* layers.py:227-233  the in-plane coordinates of layer idx, in twelfths
ab_coords(type, idx) ==
    IF type = <<66, 67, 67>>
    THEN (IF idx % 2 = 0 THEN <<3, 9>> ELSE <<9, 3>>)
    ELSE (IF idx % 2 = 0 THEN <<0, 0>> ELSE <<8, 4>>)

InitStructure ==
    /\ \/ /\ bls_call = "build_layer_structure"
          /\ api_key \in {<< >>, <<"api-key">>}
          /\ max_energy_above_hull \in {<< >>} \cup {<<e>> : e \in -1..MaxEnergy}
          /\ bls_structure_type \in STRUCTURE_SPACEGROUPS \cup {<<98, 99, 99>>}
          /\ bls_layer_count \in 1..MaxLayerCount
          /\ available \in ShortDocLists
       \/ /\ bls_call \in {"build_layer_structure", "_select_preferred_doc"}
          /\ api_key = <<"api-key">>
          /\ max_energy_above_hull = << >>
          /\ bls_structure_type \in STRUCTURE_SPACEGROUPS
          /\ bls_layer_count = 2
          /\ available \in DocLists \cup ShortDocLists
    /\ queries = 0
    /\ docs = << >>
    /\ selected_doc = << >>
    /\ built = << >>
    /\ bls_raised = ""
    /\ spc = "enter"
    /\ ElfIdle
    /\ LayerIdle
    /\ BondIdle
    /\ GeometryIdle
    /\ DirectoryIdle
    /\ GenerateIdle
    /\ PrepareIdle
    /\ CliIdle

\* layers.py:169-174  the arguments are checked
CheckArguments ==
    /\ bls_call = "build_layer_structure"
    /\ spc = "enter"
    /\ IF api_key = << >>
       THEN /\ bls_raised' = "RuntimeError"
            /\ spc' = "done"
       ELSE IF HullNegative(max_energy_above_hull)
       THEN /\ bls_raised' = "ValueError"
            /\ spc' = "done"
       ELSE /\ bls_raised' = bls_raised
            /\ spc' = "search"
    /\ UNCHANGED <<bls_call, api_key, max_energy_above_hull, bls_structure_type,
                   bls_layer_count, available, queries, docs, selected_doc,
                   built, restStructure>>

\* layers.py:176  a structure type that is no key of _STRUCTURE_SPACEGROUPS
UnknownSpacegroup ==
    /\ spc = "search"
    /\ bls_structure_type \notin STRUCTURE_SPACEGROUPS
    /\ bls_raised' = "KeyError"
    /\ spc' = "done"
    /\ UNCHANGED <<bls_call, api_key, max_energy_above_hull, bls_structure_type,
                   bls_layer_count, available, queries, docs, selected_doc,
                   built, restStructure>>

\* layers.py:176-185  the summary search returns
SearchSummary ==
    /\ spc = "search"
    /\ bls_structure_type \in STRUCTURE_SPACEGROUPS
    /\ queries' = queries + 1
    /\ docs' = <<available>>
    /\ spc' = "select"
    /\ UNCHANGED <<bls_call, api_key, max_energy_above_hull, bls_structure_type,
                   bls_layer_count, available, selected_doc, built, bls_raised,
                   restStructure>>

\* layers.py:184-185  the summary search raises
SearchFails ==
    /\ spc = "search"
    /\ bls_structure_type \in STRUCTURE_SPACEGROUPS
    /\ queries' = queries + 1
    /\ bls_raised' = "MPRestError"
    /\ spc' = "done"
    /\ UNCHANGED <<bls_call, api_key, max_energy_above_hull, bls_structure_type,
                   bls_layer_count, available, docs, selected_doc, built,
                   restStructure>>

\* layers.py:186-192  no document, or the preferred one
SelectDoc ==
    /\ spc = "select"
    /\ IF docs[1] = << >>
       THEN /\ bls_raised' = "ValueError"
            /\ selected_doc' = selected_doc
            /\ spc' = "done"
       ELSE /\ bls_raised' = bls_raised
            /\ selected_doc' = <<select_preferred_doc(docs[1])>>
            /\ spc' = "build"
    /\ UNCHANGED <<bls_call, api_key, max_energy_above_hull, bls_structure_type,
                   bls_layer_count, available, queries, docs, built,
                   restStructure>>

\* layers.py:212-242  the layered Structure is built from the prototype
BuildStructure ==
    /\ spc = "build"
    /\ IF selected_doc[1].structure # "Structure"
       THEN /\ bls_raised' = "RuntimeError"
            /\ built' = built
       ELSE /\ bls_raised' = bls_raised
            /\ built' = << [ species |-> bls_layer_count,
                             ab |-> [idx \in 0..(bls_layer_count - 1) |->
                                        ab_coords(bls_structure_type, idx)] ] >>
    /\ spc' = "done"
    /\ UNCHANGED <<bls_call, api_key, max_energy_above_hull, bls_structure_type,
                   bls_layer_count, available, queries, docs, selected_doc,
                   restStructure>>

\* layers.py:278-283  _select_preferred_doc called on a list of documents
SelectPreferredDoc ==
    /\ bls_call = "_select_preferred_doc"
    /\ spc = "enter"
    /\ IF available = << >>
       THEN /\ bls_raised' = "ValueError"
            /\ selected_doc' = selected_doc
       ELSE /\ bls_raised' = bls_raised
            /\ selected_doc' = <<select_preferred_doc(available)>>
    /\ spc' = "done"
    /\ UNCHANGED <<bls_call, api_key, max_energy_above_hull, bls_structure_type,
                   bls_layer_count, available, queries, docs, built,
                   restStructure>>

NextStructure ==
    \/ CheckArguments
    \/ UnknownSpacegroup
    \/ SearchSummary
    \/ SearchFails
    \/ SelectDoc
    \/ BuildStructure
    \/ SelectPreferredDoc

SpecStructure == InitStructure /\ [][NextStructure]_vars

(***************************************************************************)
(* Properties of build_layer_structure and _select_preferred_doc.          *)
(***************************************************************************)
\* C21: build_layer_structure called with an API key and a negative
\* max_energy_above_hull raises ValueError; no summary search is issued, no
\* document is selected and no Structure is built, at any point of the call.
C21_NegativeHullRaisesBeforeQuery ==
    (/\ bls_call = "build_layer_structure"
     /\ api_key # << >>
     /\ max_energy_above_hull # << >>
     /\ max_energy_above_hull[1] < 0)
        => /\ queries = 0
           /\ docs = << >>
           /\ selected_doc = << >>
           /\ built = << >>
           /\ spc \in {"enter", "done"}
           /\ spc = "done" => bls_raised = "ValueError"

C21_Witness ==
    /\ bls_call = "build_layer_structure"
    /\ api_key # << >>
    /\ max_energy_above_hull = <<-1>>
    /\ bls_structure_type \in STRUCTURE_SPACEGROUPS
    /\ available # << >>
    /\ spc = "done"
    /\ bls_raised = "ValueError"

\* The energy of document x is lower than that of y: a number is lower than a
\* larger number and than a missing energy.
LowerEnergy(x, y) ==
    /\ x.energy_above_hull # << >>
    /\ (y.energy_above_hull = << >> \/ x.energy_above_hull[1] < y.energy_above_hull[1])

\* The material id of a document as a string.
IdText(x) == IF x.material_id = << >> THEN << >> ELSE x.material_id[1]

\* The documents of the list have pairwise distinct (energy, material_id) keys.
DistinctKeys(documents) ==
    \A i, j \in 1..Len(documents) :
        i # j => (\/ documents[i].energy_above_hull # documents[j].energy_above_hull
                  \/ IdText(documents[i]) # IdText(documents[j]))

\* The orders of 1..n.
Orders(n) == {f \in [1..n -> 1..n] : \A i, j \in 1..n : i # j => f[i] # f[j]}

\* C22: _select_preferred_doc raises ValueError on an empty list; otherwise it
\* returns a document of the list such that no document has a lower energy
\* above hull (a missing energy being above every number) and, among those
\* with the same energy, none has a smaller material_id string; and when the
\* keys are pairwise distinct, every reordering of the list gives the same
\* document.
C22_LowestHullThenMaterialId ==
    (bls_call = "_select_preferred_doc" /\ spc = "done") =>
        IF available = << >>
        THEN bls_raised = "ValueError" /\ selected_doc = << >>
        ELSE /\ bls_raised = ""
             /\ selected_doc # << >>
             /\ LET chosen == selected_doc[1]
                IN  /\ \E k \in 1..Len(available) : available[k] = chosen
                    /\ \A k \in 1..Len(available) :
                          /\ ~LowerEnergy(available[k], chosen)
                          /\ available[k].energy_above_hull = chosen.energy_above_hull
                                => TextLessEq(IdText(chosen), IdText(available[k]))
                    /\ DistinctKeys(available) =>
                          \A f \in Orders(Len(available)) :
                              select_preferred_doc(
                                  [k \in 1..Len(available) |-> available[f[k]]])
                                  = chosen

\* Three documents with distinct keys, the first without an energy, the other
\* two of equal energy: the one chosen is the last, whose id "mp-10" is the
\* smaller string.
C22_Witness ==
    /\ bls_call = "_select_preferred_doc"
    /\ spc = "done"
    /\ Len(available) = 3
    /\ DistinctKeys(available)
    /\ available[1].energy_above_hull = << >>
    /\ available[2].energy_above_hull = available[3].energy_above_hull
    /\ available[2].material_id = << <<109, 112, 45, 50>> >>
    /\ available[3].material_id = << <<109, 112, 45, 49, 48>> >>
    /\ selected_doc = <<available[3]>>

(***************************************************************************)
(* _handle_analyze_elf (cli.py).  A file is known by what its analysis     *)
(* does: "ok" returns metrics, "missing" and "empty" raise.                *)
(***************************************************************************)
\* The most files drawn in the directory.
MaxCliFiles == 3

\* The exception analyze_elfcar_with_hotspots leaves with, "" when it returns.
AnalysisError(f) ==
    CASE f = "missing" -> "FileNotFoundError"
      [] f = "empty"   -> "RuntimeError"
      [] OTHER         -> ""

\* The files of the sequence before the first whose analysis raises, and that
\* file.
Attempted(files) ==
    LET failing == {k \in 1..Len(files) : AnalysisError(files[k]) # ""}
    IN  IF failing = {} THEN files
        ELSE SubSeq(files, 1, CHOOSE k \in failing : \A m \in failing : k <= m)

InitCli ==
    /\ \/ /\ cli_file \in {<<f>> : f \in {"ok", "missing", "empty"}}
          /\ cli_directory = << >>
       \/ /\ cli_file = << >>
          /\ cli_directory \in UNION {[1..n -> {"ok", "empty"}] : n \in 0..MaxCliFiles}
    /\ cli_top_n \in -1..MaxTopN
    /\ cli_analysed = << >>
    /\ cli_outputs = << >>
    /\ cli_exit = << >>
    /\ cli_raised = ""
    /\ cpc = "enter"
    /\ ElfIdle
    /\ LayerIdle
    /\ BondIdle
    /\ GeometryIdle
    /\ DirectoryIdle
    /\ GenerateIdle
    /\ PrepareIdle
    /\ StructureIdle

\* cli.py:173-176  single-file mode
AnalyseFile ==
    /\ cpc = "enter"
    /\ cli_file # << >>
    /\ cli_analysed' = Append(cli_analysed, cli_file[1])
    /\ IF AnalysisError(cli_file[1]) = ""
       THEN /\ cli_exit' = <<0>>
            /\ cli_raised' = cli_raised
       ELSE /\ cli_exit' = cli_exit
            /\ cli_raised' = AnalysisError(cli_file[1])
    /\ cpc' = "done"
    /\ UNCHANGED <<cli_file, cli_directory, cli_top_n, cli_outputs, restCli>>

\* cli.py:178-181  directory mode: the files are analysed, and an empty
\* result ends the handler with exit code 1
AnalyseDirectory ==
    /\ cpc = "enter"
    /\ cli_file = << >>
    /\ cli_analysed' = cli_analysed \o Attempted(cli_directory)
    /\ IF Attempted(cli_directory) # << >>
          /\ AnalysisError(Attempted(cli_directory)[Len(Attempted(cli_directory))]) # ""
       THEN /\ cli_raised' =
                 AnalysisError(Attempted(cli_directory)[Len(Attempted(cli_directory))])
            /\ cli_exit' = cli_exit
            /\ cpc' = "done"
       ELSE IF cli_directory = << >>
       THEN /\ cli_raised' = cli_raised
            /\ cli_exit' = <<1>>
            /\ cpc' = "done"
       ELSE /\ cli_raised' = cli_raised
            /\ cli_exit' = cli_exit
            /\ cpc' = "write"
    /\ UNCHANGED <<cli_file, cli_directory, cli_top_n, cli_outputs, restCli>>

\* cli.py:183-198  the two tables are written
WriteOutputs ==
    /\ cpc = "write"
    /\ cli_outputs' = cli_outputs \o <<"data_output", "coords_output">>
    /\ cli_exit' = <<0>>
    /\ cpc' = "done"
    /\ UNCHANGED <<cli_file, cli_directory, cli_top_n, cli_analysed, cli_raised,
                   restCli>>

NextCli ==
    \/ AnalyseFile
    \/ AnalyseDirectory
    \/ WriteOutputs

SpecCli == InitCli /\ [][NextCli]_vars

\* C23: called with top_n = 0, in single-file or in directory mode, the
\* handler returns exit code 1, analyses no file and raises nothing.
C23_InvalidTopNExitsOne ==
    (cli_top_n = 0 /\ cpc = "done") =>
        /\ cli_exit = <<1>>
        /\ cli_analysed = << >>
        /\ cli_raised = ""

(***************************************************************************)
(* LayerGenerator.run with _prepare_layer step by step                     *)
(* (generation/layers.py).  A step of _prepare_layer is a record           *)
(* [op, dir, name]; a file written is known by the layer count of its      *)
(* directory, the subdirectory and its name.                               *)
(***************************************************************************)
\* The longest request drawn here.
MaxPrepareCounts == 3

Step(op, dir, name) == [op |-> op, dir |-> dir, name |-> name]

\* Faulty variant: the job is submitted before the job scripts are written.
SubmitBeforeScripts ==
    << Step("mkdir", "relax", ""), Step("mkdir", "scf", ""),
       Step("build_potcar", "", ""),
       Step("write", "relax", "POTCAR"), Step("write", "scf", "POTCAR"),
       Step("read_text", "relax", ""), Step("read_text", "scf", ""),
       Step("write", "relax", "INCAR"), Step("write", "scf", "INCAR"),
       Step("build_layer_structure", "", ""),
       Step("write", "relax", "POSCAR"),
       Step("submit", "relax", "job.pbs"),
       Step("write", "relax", "job.pbs"), Step("write", "scf", "job.pbs"),
       Step("return", "", "") >>

\* layers.py:92-133  the statements of _prepare_layer, in order
PrepareSteps ==
    << Step("mkdir", "relax", ""), Step("mkdir", "scf", ""),
       Step("build_potcar", "", ""),
       Step("write", "relax", "POTCAR"), Step("write", "scf", "POTCAR"),
       Step("read_text", "relax", ""), Step("read_text", "scf", ""),
       Step("write", "relax", "INCAR"), Step("write", "scf", "INCAR"),
       Step("build_layer_structure", "", ""),
       Step("write", "relax", "POSCAR"),
       Step("write", "relax", "job.pbs"), Step("write", "scf", "job.pbs"),
       Step("submit", "relax", "job.pbs"),
       Step("return", "", "") >>

\* The exceptions a step can leave with.
StepErrors(step) ==
    CASE step.op \in {"mkdir", "write"}     -> {"OSError"}
      [] step.op \in {"build_potcar", "read_text"} -> {"FileNotFoundError"}
      [] step.op = "build_layer_structure"  -> {"RuntimeError", "ValueError"}
      [] OTHER                              -> {}

\* The requests: "bcc" or "fcc", and at most MaxPrepareCounts layer counts.
PrepareRequests ==
    UNION {[1..n -> 0..MaxLayerCount] : n \in 0..MaxPrepareCounts}

InitPrepare ==
    /\ structure_type \in { <<98, 99, 99>>, <<102, 99, 99>> }
    /\ layer_counts \in PrepareRequests
    /\ submit_jobs \in BOOLEAN
    /\ pending = << >>
    /\ seen = {}
    /\ created_paths = << >>
    /\ prepared = << >>
    /\ gen_raised = ""
    /\ gen_returned = << >>
    /\ gpc = "run"
    /\ written = << >>
    /\ submitted = << >>
    /\ ppc = 0
    /\ ElfIdle
    /\ LayerIdle
    /\ BondIdle
    /\ GeometryIdle
    /\ DirectoryIdle
    /\ StructureIdle
    /\ CliIdle

\* The step _prepare_layer is at.
CurrentStep == PrepareSteps[ppc]

\* layers.py:58-65  a new count is recorded and _prepare_layer is entered
BeginLayer ==
    /\ gpc = "loop"
    /\ pending # << >>
    /\ Head(pending) >= 1
    /\ ~AlreadySeen(Head(pending), seen)
    /\ seen' = seen \cup {Head(pending)}
    /\ prepared' = Append(prepared, Head(pending))
    /\ gpc' = "prepare"
    /\ ppc' = 1
    /\ UNCHANGED <<structure_type, layer_counts, pending, created_paths,
                   gen_raised, gen_returned, submit_jobs, written, submitted,
                   restPrepare>>

\* layers.py:92-128  a statement before the submission completes
DoStep ==
    /\ gpc = "prepare"
    /\ CurrentStep.op \notin {"submit", "return"}
    /\ written' = IF CurrentStep.op = "write"
                  THEN Append(written, [layer |-> Head(pending),
                                        dir |-> CurrentStep.dir,
                                        name |-> CurrentStep.name])
                  ELSE written
    /\ ppc' = ppc + 1
    /\ UNCHANGED <<structure_type, layer_counts, pending, seen, created_paths,
                   prepared, gen_raised, gen_returned, gpc, submit_jobs,
                   submitted, restPrepare>>

\* layers.py:92-128  a statement before the submission raises, and the
\* exception leaves _prepare_layer and run
StepRaises ==
    /\ gpc = "prepare"
    /\ \E error \in StepErrors(CurrentStep) : gen_raised' = error
    /\ gpc' = "done"
    /\ UNCHANGED <<structure_type, layer_counts, pending, seen, created_paths,
                   prepared, gen_returned, submit_jobs, written, submitted, ppc,
                   restPrepare>>

\* layers.py:130-131, 315-322  the job script is handed to the scheduler
SubmitJob ==
    /\ gpc = "prepare"
    /\ CurrentStep.op = "submit"
    /\ submit_jobs
    /\ submitted' = Append(submitted, [layer |-> Head(pending),
                                       dir |-> CurrentStep.dir,
                                       name |-> CurrentStep.name])
    /\ ppc' = ppc + 1
    /\ UNCHANGED <<structure_type, layer_counts, pending, seen, created_paths,
                   prepared, gen_raised, gen_returned, gpc, submit_jobs, written,
                   restPrepare>>

\* layers.py:130-131, 315-326  the scheduler command is missing or fails
SubmitJobFails ==
    /\ gpc = "prepare"
    /\ CurrentStep.op = "submit"
    /\ submit_jobs
    /\ submitted' = Append(submitted, [layer |-> Head(pending),
                                       dir |-> CurrentStep.dir,
                                       name |-> CurrentStep.name])
    /\ gen_raised' = "RuntimeError"
    /\ gpc' = "done"
    /\ UNCHANGED <<structure_type, layer_counts, pending, seen, created_paths,
                   prepared, gen_returned, submit_jobs, written, ppc,
                   restPrepare>>

\* layers.py:130  submit is false
SkipSubmit ==
    /\ gpc = "prepare"
    /\ CurrentStep.op = "submit"
    /\ ~submit_jobs
    /\ ppc' = ppc + 1
    /\ UNCHANGED <<structure_type, layer_counts, pending, seen, created_paths,
                   prepared, gen_raised, gen_returned, gpc, submit_jobs, written,
                   submitted, restPrepare>>

\* layers.py:133, 75  _prepare_layer returns and the path is recorded
ReturnLayer ==
    /\ gpc = "prepare"
    /\ CurrentStep.op = "return"
    /\ created_paths' = Append(created_paths, Head(pending))
    /\ pending' = Tail(pending)
    /\ gpc' = "loop"
    /\ ppc' = 0
    /\ UNCHANGED <<structure_type, layer_counts, seen, prepared, gen_raised,
                   gen_returned, submit_jobs, written, submitted, restPrepare>>

NextPrepare ==
    \/ EnterRun
    \/ RejectLayerCount
    \/ SkipDuplicate
    \/ BeginLayer
    \/ DoStep
    \/ StepRaises
    \/ SubmitJob
    \/ SubmitJobFails
    \/ SkipSubmit
    \/ ReturnLayer
    \/ ReturnPaths

SpecPrepare == InitPrepare /\ [][NextPrepare]_vars

(***************************************************************************)
(* Properties of _prepare_layer within run.                                *)
(***************************************************************************)
\* The names of the files written so far into a subdirectory of a layer.
WrittenFor(layer, dir) ==
    {written[k].name : k \in {m \in 1..Len(written) :
                                 written[m].layer = layer /\ written[m].dir = dir}}

\* The layer counts whose job was handed to the scheduler.
SubmittedLayers == {submitted[k].layer : k \in 1..Len(submitted)}

\* The files of the relax directory a submission needs.
RelaxInputs == {"POTCAR", "INCAR", "POSCAR", "job.pbs"}

\* A step that hands a job to the scheduler finds the four files of the relax
\* directory of that layer written, and hands over the relax job script.
SubmitsAfterWriting ==
    submitted' # submitted =>
        /\ Len(submitted') = Len(submitted) + 1
        /\ SubSeq(submitted', 1, Len(submitted)) = submitted
        /\ LET job == submitted'[Len(submitted')]
           IN  /\ submit_jobs
               /\ job.dir = "relax"
               /\ job.name = "job.pbs"
               /\ job.layer = prepared[Len(prepared)]
               /\ job.layer \notin SubmittedLayers
               /\ RelaxInputs \subseteq WrittenFor(job.layer, "relax")

\* Without submit nothing is submitted; a layer one of whose steps before the
\* submission raised is not submitted; and after an exception run has ended:
\* nothing is returned, no step is left, and no larger layer count of the
\* request was prepared, written to, or submitted.
NoSubmissionAfterFailure ==
    /\ ~submit_jobs => submitted = << >>
    /\ SubmittedLayers \subseteq {prepared[k] : k \in 1..Len(prepared)}
    /\ gen_raised # "" =>
          /\ gpc = "done"
          /\ gen_returned = << >>
          /\ ~ENABLED NextPrepare
          /\ ppc > 0 =>
                LET failed == prepared[Len(prepared)]
                IN  /\ CurrentStep.op # "submit" => failed \notin SubmittedLayers
                    /\ \A c \in Requested :
                          c > failed =>
                              /\ \A k \in 1..Len(prepared) : prepared[k] # c
                              /\ WrittenFor(c, "relax") = {}
                              /\ WrittenFor(c, "scf") = {}
                              /\ c \notin SubmittedLayers

\* C30: a job is submitted only after the POTCAR, INCAR, POSCAR and job script
\* of the layer's relax directory are written; what is submitted is the relax
\* job script, never the scf one; nothing is submitted when submit is false or
\* when an earlier step of the layer raised; and a failure while a layer is
\* prepared ends run, so that no larger layer count is prepared or submitted.
C30_SubmitLastAndAbortOnFailure ==
    /\ [][SubmitsAfterWriting]_vars
    /\ []NoSubmissionAfterFailure

\* Of the request (3, 1, 2) with submit set, layer 1 was submitted; layer 2
\* failed in build_layer_structure with its POTCAR and INCAR written and was
\* not submitted; layer 3 was never begun.
C30_Witness ==
    /\ submit_jobs
    /\ layer_counts = <<3, 1, 2>>
    /\ gpc = "done"
    /\ gen_raised = "ValueError"
    /\ prepared = <<1, 2>>
    /\ SubmittedLayers = {1}
    /\ WrittenFor(2, "relax") = {"POTCAR", "INCAR"}
    /\ WrittenFor(3, "relax") = {}
====
